---- MODULE Spec2Model ----
(***************************************************************************)
(* Club booking system: the admin document browser (schema inference,      *)
(* value coercion, client-side filter, dynamic insert/edit forms) and the  *)
(* member page's New Booking dialog, as state machines over a document     *)
(* store.                                                                  *)
(*                                                                         *)
(* Text is a sequence of one-character strings.  A value of a document is  *)
(* a tagged record [t, n, e, s, items]:                                    *)
(*   null   t = "null"                                                     *)
(*   bool   t = "bool",  n \in {0, 1}                                      *)
(*   int    t = "int",   n the integer                                     *)
(*   float  t = "float", the decimal n * 10^e (n not divisible by 10), or  *)
(*          s = "inf" / "nan" with n the sign for the non-finite values    *)
(*   str    t = "str",   s the text                                        *)
(*   oid    t = "oid",   n the store-assigned identifier                   *)
(*   list   t = "list",  items the sequence of element values              *)
(*   dict   t = "dict",  items the sequence of [k, v] entries              *)
(***************************************************************************)
EXTENDS Integers, Sequences, FiniteSets, TLC

----------------------------------------------------------------------------
(* Text helpers                                                            *)

DigitSeq == <<"0", "1", "2", "3", "4", "5", "6", "7", "8", "9">>

DigitChars == {DigitSeq[i] : i \in 1..10}

UpperSeq == <<"A", "B", "C", "D", "E", "F", "G", "H", "I", "J", "K", "L", "M",
              "N", "O", "P", "Q", "R", "S", "T", "U", "V", "W", "X", "Y", "Z">>

LowerSeq == <<"a", "b", "c", "d", "e", "f", "g", "h", "i", "j", "k", "l", "m",
              "n", "o", "p", "q", "r", "s", "t", "u", "v", "w", "x", "y", "z">>

WhiteSpace == {" "}

IsDigit(c) == c \in DigitChars

DigitVal(c) == (CHOOSE i \in 1..10 : DigitSeq[i] = c) - 1

LowerChar(c) ==
    IF \E i \in 1..26 : UpperSeq[i] = c
    THEN LowerSeq[CHOOSE i \in 1..26 : UpperSeq[i] = c]
    ELSE c

\* str.lower()
Lower(s) == [i \in 1..Len(s) |-> LowerChar(s[i])]

\* s[a:b] with 1-based inclusive bounds; empty when a > b
Slice(s, a, b) == IF a > b THEN <<>> ELSE SubSeq(s, a, b)

RECURSIVE LStrip(_)
LStrip(s) ==
    IF s # <<>> /\ Head(s) \in WhiteSpace THEN LStrip(Tail(s)) ELSE s

RECURSIVE RStrip(_)
RStrip(s) ==
    IF s # <<>> /\ s[Len(s)] \in WhiteSpace
    THEN RStrip(SubSeq(s, 1, Len(s) - 1))
    ELSE s

\* str.strip()
Strip(s) == RStrip(LStrip(s))

\* sub in s
Contains(s, sub) ==
    \E i \in 1..(Len(s) - Len(sub) + 1) : SubSeq(s, i, i + Len(sub) - 1) = sub

HasChar(s, c) == \E i \in 1..Len(s) : s[i] = c

StartsWith(s, c) == s # <<>> /\ s[1] = c

EndsWith(s, c) == s # <<>> /\ s[Len(s)] = c

\* position of the first character of s that is in cs, 0 when there is none
FirstIn(s, cs) ==
    IF \E i \in 1..Len(s) : s[i] \in cs
    THEN CHOOSE i \in 1..Len(s) : s[i] \in cs /\ \A j \in 1..(i - 1) : s[j] \notin cs
    ELSE 0

RECURSIVE Repeat(_, _)
Repeat(c, k) == IF k <= 0 THEN <<>> ELSE <<c>> \o Repeat(c, k - 1)

RECURSIVE Pow10(_)
Pow10(k) == IF k <= 0 THEN 1 ELSE 10 * Pow10(k - 1)

RECURSIVE NatDigits(_)
NatDigits(n) ==
    IF n < 10 THEN <<DigitSeq[n + 1]>>
    ELSE NatDigits(n \div 10) \o <<DigitSeq[(n % 10) + 1]>>

Abs(n) == IF n < 0 THEN -n ELSE n

\* str(int)
IntText(n) == IF n < 0 THEN <<"-">> \o NatDigits(-n) ELSE NatDigits(n)

----------------------------------------------------------------------------
(* Values                                                                  *)

Val(t, n, e, s, items) == [t |-> t, n |-> n, e |-> e, s |-> s, items |-> items]

VNull == Val("null", 0, 0, <<>>, <<>>)

VBool(b) == Val("bool", IF b THEN 1 ELSE 0, 0, <<>>, <<>>)

VInt(n) == Val("int", n, 0, <<>>, <<>>)

VStr(s) == Val("str", 0, 0, s, <<>>)

VOid(n) == Val("oid", n, 0, <<>>, <<>>)

VList(items) == Val("list", 0, 0, <<>>, items)

VDict(items) == Val("dict", 0, 0, <<>>, items)

VInf(sign) == Val("float", sign, 0, <<"i", "n", "f">>, <<>>)

VNaN == Val("float", 0, 0, <<"n", "a", "n">>, <<>>)

RECURSIVE DropLeadingZeros(_)
DropLeadingZeros(ds) ==
    IF ds # <<>> /\ Head(ds) = "0" THEN DropLeadingZeros(Tail(ds)) ELSE ds

RECURSIVE DropTrailingZeros(_)
DropTrailingZeros(ds) ==
    IF ds # <<>> /\ ds[Len(ds)] = "0"
    THEN DropTrailingZeros(SubSeq(ds, 1, Len(ds) - 1))
    ELSE ds

RECURSIVE DigitsVal(_)
DigitsVal(ds) ==
    IF ds = <<>> THEN 0
    ELSE 10 * DigitsVal(SubSeq(ds, 1, Len(ds) - 1)) + DigitVal(ds[Len(ds)])

\* the IEEE double nearest to sign * ds * 10^e (ds a digit text), for decimals of
\* at most 9 significant digits: exact as a decimal inside the double range, inf
\* above it and zero below it
VFloat(sign, ds, e) ==
    LET lead == DropLeadingZeros(ds)
        sig == DropTrailingZeros(lead)
        ee == e + (Len(lead) - Len(sig))
        mag == Len(sig) + ee
        lead2 == 10 * DigitVal(sig[1]) + (IF Len(sig) > 1 THEN DigitVal(sig[2]) ELSE 0)
    IN  IF sig = <<>> THEN Val("float", 0, 0, <<>>, <<>>)
        ELSE IF mag > 309 \/ (mag = 309 /\ lead2 >= 18) THEN VInf(sign)
        ELSE IF mag < -323 THEN Val("float", 0, 0, <<>>, <<>>)
        ELSE Val("float", sign * DigitsVal(sig), ee, <<>>, <<>>)

----------------------------------------------------------------------------
(* Python's int() and float() on text                                      *)

\* digitpart ::= digit (["_"] digit)*
DigitPart(s) ==
    /\ s # <<>>
    /\ IsDigit(s[1]) /\ IsDigit(s[Len(s)])
    /\ \A i \in 1..Len(s) : IsDigit(s[i]) \/ s[i] = "_"
    /\ \A i \in 1..(Len(s) - 1) : ~(s[i] = "_" /\ s[i + 1] = "_")

DigitsOf(s) == SelectSeq(s, IsDigit)

SignOf(s) == IF StartsWith(s, "-") THEN -1 ELSE 1

Unsigned(s) == IF s # <<>> /\ s[1] \in {"+", "-"} THEN Tail(s) ELSE s

Failed == [ok |-> FALSE, val |-> VNull]

Parsed(v) == [ok |-> TRUE, val |-> v]

\* int(s): ok is FALSE where Python raises ValueError
PyInt(s) ==
    LET u == Strip(s)
        body == Unsigned(u)
    IN  IF DigitPart(body)
        THEN Parsed(VInt(SignOf(u) * DigitsVal(DropLeadingZeros(DigitsOf(body)))))
        ELSE Failed

\* float(s): ok is FALSE where Python raises ValueError
PyFloat(s) ==
    LET u == Strip(s)
        body == Unsigned(u)
        epos == FirstIn(body, {"e", "E"})
        mant == IF epos = 0 THEN body ELSE Slice(body, 1, epos - 1)
        expo == IF epos = 0 THEN <<>> ELSE Slice(body, epos + 1, Len(body))
        dot == FirstIn(mant, {"."})
        ip == IF dot = 0 THEN mant ELSE Slice(mant, 1, dot - 1)
        fp == IF dot = 0 THEN <<>> ELSE Slice(mant, dot + 1, Len(mant))
        mantOk == IF dot = 0 THEN DigitPart(mant)
                  ELSE /\ ip = <<>> \/ DigitPart(ip)
                       /\ fp = <<>> \/ DigitPart(fp)
                       /\ ~(ip = <<>> /\ fp = <<>>)
        expOk == epos = 0 \/ DigitPart(Unsigned(expo))
        expVal == IF epos = 0 THEN 0
                  ELSE SignOf(expo) * DigitsVal(DropLeadingZeros(DigitsOf(Unsigned(expo))))
    IN  IF Lower(body) \in {<<"i", "n", "f">>, <<"i", "n", "f", "i", "n", "i", "t", "y">>}
        THEN Parsed(VInf(SignOf(u)))
        ELSE IF Lower(body) = <<"n", "a", "n">> THEN Parsed(VNaN)
        ELSE IF mantOk /\ expOk
        THEN Parsed(VFloat(SignOf(u), DigitsOf(ip) \o DigitsOf(fp),
                          expVal - Len(DigitsOf(fp))))
        ELSE Failed

----------------------------------------------------------------------------
(* Python's str() and repr() of values                                     *)

\* repr(float): the shortest text that reads back as the same double
FloatText(v) ==
    LET d == NatDigits(Abs(v.n))
        nd == Len(d)
        decpt == nd + v.e
        neg == IF v.n < 0 THEN <<"-">> ELSE <<>>
        x == decpt - 1
        xtext == (IF x < 0 THEN <<"-">> ELSE <<"+">>)
                 \o (IF Abs(x) < 10 THEN <<"0">> ELSE <<>>) \o NatDigits(Abs(x))
    IN  IF v.s = <<"n", "a", "n">> THEN v.s
        ELSE IF v.s = <<"i", "n", "f">> THEN neg \o v.s
        ELSE IF v.n = 0 THEN <<"0", ".", "0">>
        ELSE IF decpt <= -4 \/ decpt > 16
        THEN neg \o <<d[1]>> \o (IF nd > 1 THEN <<".">> \o Tail(d) ELSE <<>>)
                 \o <<"e">> \o xtext
        ELSE IF decpt <= 0 THEN neg \o <<"0", ".">> \o Repeat("0", -decpt) \o d
        ELSE IF decpt >= nd THEN neg \o d \o Repeat("0", decpt - nd) \o <<".", "0">>
        ELSE neg \o SubSeq(d, 1, decpt) \o <<".">> \o SubSeq(d, decpt + 1, nd)

\* str(ObjectId): 24 hexadecimal characters, here the leading timestamp
\* characters followed by the counter
OidText(n) == <<"6", "5", "f">> \o NatDigits(n)

RECURSIVE JoinTexts(_, _)
JoinTexts(texts, sep) ==
    IF texts = <<>> THEN <<>>
    ELSE IF Len(texts) = 1 THEN texts[1]
    ELSE texts[1] \o sep \o JoinTexts(Tail(texts), sep)

RECURSIVE PyRepr(_)
\* repr(value); text without quote or backslash characters
PyRepr(v) ==
    CASE v.t = "null" -> <<"N", "o", "n", "e">>
      [] v.t = "bool" -> IF v.n = 1 THEN <<"T", "r", "u", "e">>
                         ELSE <<"F", "a", "l", "s", "e">>
      [] v.t = "int" -> IntText(v.n)
      [] v.t = "float" -> FloatText(v)
      [] v.t = "str" -> <<"'">> \o v.s \o <<"'">>
      [] v.t = "oid" -> <<"O", "b", "j", "e", "c", "t", "I", "d", "(", "'">>
                        \o OidText(v.n) \o <<"'", ")">>
      [] v.t = "list" ->
            <<"[">> \o JoinTexts([i \in 1..Len(v.items) |-> PyRepr(v.items[i])],
                                 <<",", " ">>) \o <<"]">>
      [] v.t = "dict" ->
            <<"{">> \o JoinTexts([i \in 1..Len(v.items) |->
                                    <<"'">> \o v.items[i].k \o <<"'", ":", " ">>
                                    \o PyRepr(v.items[i].v)],
                                 <<",", " ">>) \o <<"}">>

\* str(value)
PyStr(v) ==
    CASE v.t = "str" -> v.s
      [] v.t = "oid" -> OidText(v.n)
      [] OTHER -> PyRepr(v)

----------------------------------------------------------------------------
(* json.loads and json.dumps                                               *)

\* first position >= i that holds no JSON whitespace
RECURSIVE JsonSkip(_, _)
JsonSkip(s, i) ==
    IF i <= Len(s) /\ s[i] \in WhiteSpace THEN JsonSkip(s, i + 1) ELSE i

\* first position >= i that holds no digit
RECURSIVE RunEnd(_, _)
RunEnd(s, i) == IF i <= Len(s) /\ IsDigit(s[i]) THEN RunEnd(s, i + 1) ELSE i

DigitAt(s, i) == i <= Len(s) /\ IsDigit(s[i])

CharAt(s, i, c) == i <= Len(s) /\ s[i] = c

JFail == [ok |-> FALSE, val |-> VNull, pos |-> 0]

JOk(v, pos) == [ok |-> TRUE, val |-> v, pos |-> pos]

\* the scanner's number: -?(0|[1-9]\d*)(\.\d+)?([eE][-+]?\d+)?, the longest match
JsonNumber(s, j) ==
    LET p0 == IF CharAt(s, j, "-") THEN j + 1 ELSE j
        p1 == IF CharAt(s, p0, "0") THEN p0 + 1 ELSE RunEnd(s, p0)
        p2 == IF CharAt(s, p1, ".") /\ DigitAt(s, p1 + 1) THEN RunEnd(s, p1 + 1) ELSE p1
        q == IF p2 + 1 <= Len(s) /\ s[p2 + 1] \in {"+", "-"} THEN p2 + 2 ELSE p2 + 1
        p3 == IF p2 <= Len(s) /\ s[p2] \in {"e", "E"} /\ DigitAt(s, q)
              THEN RunEnd(s, q) ELSE p2
        text == Slice(s, j, p3 - 1)
    IN  IF ~DigitAt(s, p0) THEN JFail
        ELSE IF p3 = p1 THEN JOk(PyInt(text).val, p3)
        ELSE JOk(PyFloat(text).val, p3)

\* a string without escapes: the text up to the next quote
JsonString(s, j) ==
    LET rest == Slice(s, j + 1, Len(s))
        k == FirstIn(rest, {"\""})
    IN  IF k = 0 THEN JFail ELSE JOk(VStr(Slice(rest, 1, k - 1)), j + k + 1)

JsonWord(s, j, word, v) ==
    IF j + Len(word) - 1 <= Len(s) /\ Slice(s, j, j + Len(word) - 1) = word
    THEN JOk(v, j + Len(word)) ELSE JFail

\* dict[k] = v: a repeated key keeps its place and takes the last value
DictSet(items, k, v) ==
    IF \E i \in 1..Len(items) : items[i].k = k
    THEN [i \in 1..Len(items) |->
            IF items[i].k = k THEN [k |-> k, v |-> v] ELSE items[i]]
    ELSE Append(items, [k |-> k, v |-> v])

RECURSIVE JsonValue(_, _)
RECURSIVE JsonElems(_, _, _)
RECURSIVE JsonMembers(_, _, _)

JsonValue(s, i) ==
    LET j == JsonSkip(s, i) IN
    IF j > Len(s) THEN JFail
    ELSE CASE s[j] = "[" ->
                LET k == JsonSkip(s, j + 1) IN
                IF CharAt(s, k, "]") THEN JOk(VList(<<>>), k + 1)
                ELSE JsonElems(s, k, <<>>)
           [] s[j] = "{" ->
                LET k == JsonSkip(s, j + 1) IN
                IF CharAt(s, k, "}") THEN JOk(VDict(<<>>), k + 1)
                ELSE JsonMembers(s, k, <<>>)
           [] s[j] = "\"" -> JsonString(s, j)
           [] s[j] = "t" -> JsonWord(s, j, <<"t", "r", "u", "e">>, VBool(TRUE))
           [] s[j] = "f" -> JsonWord(s, j, <<"f", "a", "l", "s", "e">>, VBool(FALSE))
           [] s[j] = "n" -> JsonWord(s, j, <<"n", "u", "l", "l">>, VNull)
           [] s[j] = "-" \/ IsDigit(s[j]) -> JsonNumber(s, j)
           [] OTHER -> JFail

JsonElems(s, i, acc) ==
    LET r == JsonValue(s, i)
        k == JsonSkip(s, r.pos)
    IN  IF ~r.ok THEN JFail
        ELSE IF CharAt(s, k, ",") THEN JsonElems(s, k + 1, Append(acc, r.val))
        ELSE IF CharAt(s, k, "]") THEN JOk(VList(Append(acc, r.val)), k + 1)
        ELSE JFail

JsonMembers(s, i, acc) ==
    LET j == JsonSkip(s, i)
        key == IF CharAt(s, j, "\"") THEN JsonString(s, j) ELSE JFail
        c == JsonSkip(s, key.pos)
        r == IF key.ok /\ CharAt(s, c, ":") THEN JsonValue(s, c + 1) ELSE JFail
        k == JsonSkip(s, r.pos)
    IN  IF ~r.ok THEN JFail
        ELSE IF CharAt(s, k, ",")
        THEN JsonMembers(s, k + 1, DictSet(acc, key.val.s, r.val))
        ELSE IF CharAt(s, k, "}")
        THEN JOk(VDict(DictSet(acc, key.val.s, r.val)), k + 1)
        ELSE JFail

\* json.loads(s): ok is FALSE where it raises; text without escapes and without
\* the NaN / Infinity literals
JsonLoads(s) ==
    LET r == JsonValue(s, 1) IN
    IF r.ok /\ JsonSkip(s, r.pos) > Len(s) THEN Parsed(r.val) ELSE Failed

RECURSIVE JsonDumps(_)
\* json.dumps(value, default=str)
JsonDumps(v) ==
    CASE v.t = "null" -> <<"n", "u", "l", "l">>
      [] v.t = "bool" -> IF v.n = 1 THEN <<"t", "r", "u", "e">>
                         ELSE <<"f", "a", "l", "s", "e">>
      [] v.t = "int" -> IntText(v.n)
      [] v.t = "float" ->
            IF v.s = <<"n", "a", "n">> THEN <<"N", "a", "N">>
            ELSE IF v.s = <<"i", "n", "f">>
            THEN (IF v.n < 0 THEN <<"-">> ELSE <<>>)
                 \o <<"I", "n", "f", "i", "n", "i", "t", "y">>
            ELSE FloatText(v)
      [] v.t = "str" -> <<"\"">> \o v.s \o <<"\"">>
      [] v.t = "oid" -> <<"\"">> \o OidText(v.n) \o <<"\"">>
      [] v.t = "list" ->
            <<"[">> \o JoinTexts([i \in 1..Len(v.items) |-> JsonDumps(v.items[i])],
                                 <<",", " ">>) \o <<"]">>
      [] v.t = "dict" ->
            <<"{">> \o JoinTexts([i \in 1..Len(v.items) |->
                                    <<"\"">> \o v.items[i].k \o <<"\"", ":", " ">>
                                    \o JsonDumps(v.items[i].v)],
                                 <<",", " ">>) \o <<"}">>

----------------------------------------------------------------------------
(* Value coercion and flattening (admin_page.py)                           *)

\* s[:k]
PySliceTo(s, k) ==
    IF k >= 0 THEN Slice(s, 1, IF k < Len(s) THEN k ELSE Len(s))
    ELSE Slice(s, 1, Len(s) + k)

\* a flattening that cuts the serialized form without the marker
MutFlattenNoEllipsis(value, max_len) ==
    IF value.t = "null" THEN <<>>
    ELSE IF value.t \in {"dict", "list"} THEN PySliceTo(JsonDumps(value), max_len)
    ELSE PyStr(value)

\* flatten_for_cell(value, max_len)
flatten_for_cell(value, max_len) ==
    IF value.t = "null" THEN <<>>
    ELSE IF value.t \in {"dict", "list"}
    THEN LET s == JsonDumps(value) IN
         IF Len(s) > max_len THEN PySliceTo(s, max_len - 3) \o <<".", ".", ".">>
         ELSE s
    ELSE PyStr(value)

TrueText == <<"t", "r", "u", "e">>

FalseText == <<"f", "a", "l", "s", "e">>

Bracketed(s) ==
    \/ StartsWith(s, "{") /\ EndsWith(s, "}")
    \/ StartsWith(s, "[") /\ EndsWith(s, "]")

\* try: return <conversion> / except Exception: <otherwise>
ValueOr(parsed, otherwise) == IF parsed.ok THEN parsed.val ELSE otherwise

\* coerce_value of the insert form
coerce_value(raw) ==
    LET s == Strip(raw) IN
    IF s = <<>> THEN VStr(<<>>)
    ELSE IF Lower(s) \in {TrueText, FalseText} THEN VBool(Lower(s) = TrueText)
    ELSE ValueOr(IF HasChar(s, ".") THEN PyFloat(s) ELSE PyInt(s),
                 IF Bracketed(s) THEN ValueOr(JsonLoads(s), VStr(s)) ELSE VStr(s))

\* coerce_value of the edit form
edit_coerce_value(raw) ==
    LET s == Strip(raw) IN
    IF s = <<>> THEN VStr(<<>>)
    ELSE IF Lower(s) \in {TrueText, FalseText} THEN VBool(Lower(s) = TrueText)
    ELSE ValueOr(IF HasChar(s, ".") THEN PyFloat(s) ELSE PyInt(s),
                 IF Bracketed(s) THEN ValueOr(JsonLoads(s), VStr(s)) ELSE VStr(s))

----------------------------------------------------------------------------
(* Documents and the document store (core/db_client.py)                    *)
(*                                                                         *)
(* A document is an ordered mapping: a sequence of [k, v] entries with     *)
(* distinct keys, a key being a text.  A collection is the sequence of its *)
(* documents in natural (insertion) order.                                 *)

K_id == <<"_", "i", "d">>

K_name == <<"n", "a", "m", "e">>

K_firstName == <<"f", "i", "r", "s", "t", "N", "a", "m", "e">>

K_lastName == <<"l", "a", "s", "t", "N", "a", "m", "e">>

K_email == <<"e", "m", "a", "i", "l">>

K_type == <<"t", "y", "p", "e">>

K_status == <<"s", "t", "a", "t", "u", "s">>

K_startTime == <<"s", "t", "a", "r", "t", "T", "i", "m", "e">>

K_endTime == <<"e", "n", "d", "T", "i", "m", "e">>

K_sentAt == <<"s", "e", "n", "t", "A", "t">>

K_memberId == <<"m", "e", "m", "b", "e", "r", "I", "d">>

K_facilityId == <<"f", "a", "c", "i", "l", "i", "t", "y", "I", "d">>

K_bookingId == <<"b", "o", "o", "k", "i", "n", "g", "I", "d">>

K_membershipLevelId ==
    <<"m", "e", "m", "b", "e", "r", "s", "h", "i", "p", "L", "e", "v", "e", "l", "I", "d">>

K_payment == <<"p", "a", "y", "m", "e", "n", "t">>

K_amount == <<"a", "m", "o", "u", "n", "t">>

K_method == <<"m", "e", "t", "h", "o", "d">>

K_paidAt == <<"p", "a", "i", "d", "A", "t">>

K_tags == <<"t", "a", "g", "s">>

K_zip == <<"z", "i", "p">>

K_age == <<"a", "g", "e">>

\* COLLECTIONS
COLLECTIONS == <<"membershipLevels", "members", "facilities", "bookings",
                 "usageLogs", "notifications">>

CollectionNames == {COLLECTIONS[i] : i \in 1..Len(COLLECTIONS)}

\* MAX_ROWS
MAX_ROWS == 200

Entry(k, v) == [k |-> k, v |-> v]

\* k in d
DocHas(d, k) == \E i \in 1..Len(d) : d[i].k = k

\* d.get(k, default)
DocGet(d, k, default) ==
    IF DocHas(d, k) THEN d[CHOOSE i \in 1..Len(d) : d[i].k = k].v ELSE default

\* list(d.keys())
DocKeys(d) == [i \in 1..Len(d) |-> d[i].k]

\* d.pop(k, None)
DocPop(d, k) == SelectSeq(d, LAMBDA en : en.k # k)

IsIn(x, seq) == \E i \in 1..Len(seq) : seq[i] = x

\* seq[:n]
Take(seq, n) == IF Len(seq) <= n THEN seq ELSE SubSeq(seq, 1, n)

\* bool(value)
Truthy(v) ==
    CASE v.t = "null" -> FALSE
      [] v.t = "bool" -> v.n = 1
      [] v.t = "int" -> v.n # 0
      [] v.t = "float" -> ~(v.n = 0 /\ v.s = <<>>)
      [] v.t = "str" -> v.s # <<>>
      [] v.t \in {"list", "dict"} -> v.items # <<>>
      [] OTHER -> TRUE

\* DBClient.find_docs(coll, limit=limit) on the collections st
find_docs(st, coll, limit) == Take(st[coll], limit)

\* the document as stored by insert_one: the store assigns _id when the
\* document has none, and _id is the first field of a stored document
Stored(doc, new_id) ==
    IF DocHas(doc, K_id) THEN <<Entry(K_id, DocGet(doc, K_id, VNull))>> \o DocPop(doc, K_id)
    ELSE <<Entry(K_id, VOid(new_id))>> \o doc

\* DBClient.insert_doc(coll, doc): the collections after insert_one
insert_doc(st, coll, doc, new_id) ==
    [st EXCEPT ![coll] = Append(@, Stored(doc, new_id))]

RECURSIVE SetAll(_, _)
\* {"$set": update} applied to one document
SetAll(d, update) ==
    IF update = <<>> THEN d
    ELSE SetAll(DictSet(d, update[1].k, update[1].v), Tail(update))

\* an update that reaches every document of the collection
MutUpdateMany(st, coll, ident, update) ==
    [st EXCEPT ![coll] = [i \in 1..Len(@) |-> SetAll(@[i], update)]]

\* DBClient.update_doc(coll, ident, update): update_one sets the named fields of
\* the first document whose _id is ident
update_doc(st, coll, ident, update) ==
    LET docs == st[coll]
        hit == {i \in 1..Len(docs) : DocGet(docs[i], K_id, VNull) = ident}
    IN  IF hit = {} THEN st
        ELSE LET i == CHOOSE j \in hit : \A m \in hit : j <= m IN
             [st EXCEPT ![coll] = [@ EXCEPT ![i] = SetAll(@, update)]]

\* the modified_count of the result of update_doc: 1 when a document has the
\* identifier and the update changes it, 0 otherwise
modified_count(st, coll, ident, update) ==
    IF update_doc(st, coll, ident, update) = st THEN 0 ELSE 1

\* f"Modified: {res.modified_count}"
modified_text(n) == IF n = 0 THEN "Modified: 0" ELSE "Modified: 1"

\* the box a handler shows after update_doc returned
modified_box(title, st, coll, ident, update) ==
    [box |-> "information", title |-> title,
     text |-> modified_text(modified_count(st, coll, ident, update))]

\* DBClient.delete_doc(coll, ident): delete_one removes the first document
\* whose _id is ident
delete_doc(st, coll, ident) ==
    LET docs == st[coll]
        hit == {i \in 1..Len(docs) : DocGet(docs[i], K_id, VNull) = ident}
    IN  IF hit = {} THEN st
        ELSE LET i == CHOOSE j \in hit : \A m \in hit : j <= m IN
             [st EXCEPT ![coll] = SubSeq(docs, 1, i - 1) \o SubSeq(docs, i + 1, Len(docs))]

----------------------------------------------------------------------------
(* Schema inference and the table (AdminPage._populate_table)              *)

preferred == <<K_id, K_name, K_firstName, K_lastName, K_email, K_type, K_status,
               K_startTime, K_endTime, K_sentAt>>

RECURSIVE AppendNew(_, _)
\* for k in ks: if k not in keys: keys.append(k)
AppendNew(keys, ks) ==
    IF ks = <<>> THEN keys
    ELSE AppendNew(IF IsIn(Head(ks), keys) THEN keys ELSE Append(keys, Head(ks)),
                   Tail(ks))

RECURSIVE AppendDocsKeys(_, _)
\* for d in docs: for k in d.keys(): if k not in keys: keys.append(k)
AppendDocsKeys(keys, docs) ==
    IF docs = <<>> THEN keys
    ELSE AppendDocsKeys(AppendNew(keys, DocKeys(Head(docs))), Tail(docs))

\* the preferred keys that occur in some document, then the remaining keys in
\* encountered order
MutColumnsNoDedup(docs) ==
    LET RECURSIVE All(_)
        All(ds) == IF ds = <<>> THEN <<>> ELSE DocKeys(Head(ds)) \o All(Tail(ds))
    IN  SelectSeq(preferred, LAMBDA k : \E i \in 1..Len(docs) : DocHas(docs[i], k))
        \o SelectSeq(All(docs), LAMBDA k : ~IsIn(k, preferred))

table_columns(docs) ==
    AppendDocsKeys(
        SelectSeq(preferred, LAMBDA k : \E i \in 1..Len(docs) : DocHas(docs[i], k)),
        docs)

\* the table after _populate_table(docs): the header labels and, per row, the
\* document kept as the first cell's UserRole data; both empty for no documents
populate_keys(docs) == IF docs = <<>> THEN <<>> ELSE table_columns(docs)

\* the text of the cell of document d in column k
cell_text(d, k) == flatten_for_cell(DocGet(d, k, VStr(<<>>)), 120)

\* the selection after the table is rebuilt with n rows: clear() drops it, and
\* setRowCount keeps a selected row that still exists
populate_selection(sel, n) == IF n = 0 \/ sel > n THEN 0 ELSE sel

\* the filter of _on_search_clicked: q (lower-cased) in the flattened text of any
\* field value
doc_matches(d, q) ==
    \E i \in 1..Len(d) : Contains(Lower(flatten_for_cell(d[i].v, 120)), Lower(q))

filter_docs(docs, q) == SelectSeq(docs, LAMBDA d : doc_matches(d, q))

----------------------------------------------------------------------------
(* State                                                                   *)

VARIABLES
    cpc,        \* coercion of one form input: "start", "typed", "prefilled",
                \* "insert_coerced", "edit_coerced", "round_trip"
    raw,        \* the text held by the form input
    shown,      \* the stored value an edit input was pre-filled from
    coerced,    \* what coerce_value made of raw
    store,      \* the database: collection name -> documents in natural order
    next_id,    \* the next identifier the store assigns
    started,    \* AdminPage._initial_load has run
    current_collection,  \* AdminPage.current_collection, "None" before a click
    docs_cache, \* AdminPage.docs_cache
    table_keys, \* the table's header labels
    table_rows, \* per table row, the document kept as its UserRole data
    selected,   \* the selected table row, 0 for none
    count_label,    \* the count label: [kind, n]
    search_input,   \* the text of the search box
    dialog,     \* the open modal form, or NoDialog
    last_op,    \* the handler that ran last, "env" after a step of another session
    msgs,       \* the message boxes the last handler showed
    calls,      \* the store calls the last handler issued
    window,     \* the open top-level window: "login", "admin", "client", "none"
    member,     \* ClientPage.member, the document of the logged-in member
    clock,      \* datetime.utcnow() in whole seconds
    worker,     \* the DBWorker of the prototype window: pc, _task, action
    foreground, \* what the GUI thread of the prototype window is inside of
    pending     \* the worker's signals queued for the GUI thread

coerceVars == <<cpc, raw, shown, coerced>>

storeVars == <<store, next_id>>

viewVars == <<docs_cache, table_keys, table_rows, selected, count_label>>

adminVars == <<started, current_collection, viewVars, search_input, dialog>>

obsVars == <<last_op, msgs, calls>>

sessionVars == <<window, member, clock>>

protoVars == <<worker, foreground, pending>>

vars == <<coerceVars, storeVars, adminVars, obsVars, sessionVars, protoVars>>

NoDialog == [kind |-> "none", coll |-> "None", doc |-> <<>>, widgets |-> <<>>]

\* a message box; text is the fixed wording the handler puts before the
\* store's own message, "" when it has none
Box(box, title) == [box |-> box, title |-> title, text |-> ""]

\* a store call: by names the function that issues it, ok is FALSE when it
\* raises, err is the exception it raises ("" for none)
Call(by, op, coll, ident, arg, ok) ==
    [by |-> by, op |-> op, coll |-> coll, ident |-> ident, arg |-> arg, ok |-> ok,
     err |-> IF ok THEN "" ELSE "Exception"]

\* a store call that raises err
Raised(by, op, coll, ident, arg, err) ==
    [Call(by, op, coll, ident, arg, FALSE) EXCEPT !.err = err]

NoLabel == [kind |-> "", n |-> 0]

\* the table and cache of the admin page
View == [cache |-> docs_cache, keys |-> table_keys, rows |-> table_rows,
         sel |-> selected, label |-> count_label]

SetView(v) ==
    /\ docs_cache' = v.cache
    /\ table_keys' = v.keys
    /\ table_rows' = v.rows
    /\ selected' = v.sel
    /\ count_label' = v.label

CoerceIdle == cpc = "start" /\ raw = <<>> /\ shown = VNull /\ coerced = VNull

\* the prototype window of main.py is not running
NoTask == [action |-> "none", coll |-> "None", ident |-> VNull, doc |-> <<>>]

ProtoIdle ==
    /\ worker = [pc |-> "idle", task |-> NoTask, action |-> "none", op |-> NoTask]
    /\ foreground = "idle"
    /\ pending = <<>>

\* the admin view is open: nobody is logged in as a member
AdminSession == window = "admin" /\ member = <<>> /\ clock = 0 /\ ProtoIdle

\* AdminPage.__init__
AdminInit ==
    /\ started = FALSE
    /\ current_collection = "None"
    /\ docs_cache = <<>>
    /\ table_keys = <<>>
    /\ table_rows = <<>>
    /\ selected = 0
    /\ count_label = NoLabel
    /\ search_input = <<>>
    /\ dialog = NoDialog
    /\ last_op = "init"
    /\ msgs = <<>>
    /\ calls = <<>>

----------------------------------------------------------------------------
(* The tabular browser (AdminPage)                                         *)

\* a table whose rows keep the first field of their document only
MutPopulateFirstField(v, docs) ==
    [v EXCEPT !.keys = populate_keys(docs),
              !.rows = [i \in 1..Len(docs) |-> Take(docs[i], 1)],
              !.sel = populate_selection(v.sel, Len(docs))]

\* _populate_table(docs) on the view v
populate_table(v, docs) ==
    [v EXCEPT !.keys = populate_keys(docs),
              !.rows = docs,
              !.sel = populate_selection(v.sel, Len(docs))]

\* a failed load that drops what was shown
MutLoadClearsOnError(v, found, ok) ==
    IF ok
    THEN [populate_table(v, found) EXCEPT
            !.cache = found, !.label = [kind |-> "showing", n |-> Len(found)]]
    ELSE [populate_table(v, <<>>) EXCEPT !.cache = <<>>]

\* a load that leaves the count as it was
MutLoadKeepsCount(v, found, ok) ==
    IF ok THEN [populate_table(v, found) EXCEPT !.cache = found] ELSE v

\* _load_docs(coll) on the view v: found is what find_docs returns, ok is FALSE
\* when find_docs raises
load_docs(v, found, ok) ==
    IF ok
    THEN [populate_table(v, found) EXCEPT
            !.cache = found, !.label = [kind |-> "showing", n |-> Len(found)]]
    ELSE v

LoadBoxes(ok) == IF ok THEN <<>> ELSE <<Box("critical", "DB Error")>>

FindCall(coll, ok) == Call("load_docs", "find_docs", coll, VNull, <<>>, ok)

ListCall(ok) == Call("load_collections", "list_collections", "None", VNull, <<>>, ok)

\* _initial_load, 50 ms after construction and before the user's first action:
\* load_collections(), then a click on the first collection.  An error of
\* list_collections leaves the handler.
InitialLoad(listOk, loadOk) ==
    /\ ~started
    /\ dialog.kind = "none"
    /\ started' = TRUE
    /\ last_op' = "initial_load"
    /\ IF listOk
       THEN /\ current_collection' = COLLECTIONS[1]
            /\ SetView(load_docs(View, find_docs(store, COLLECTIONS[1], MAX_ROWS), loadOk))
            /\ msgs' = LoadBoxes(loadOk)
            /\ calls' = <<ListCall(TRUE),
                          FindCall(COLLECTIONS[1], loadOk)>>
       ELSE /\ UNCHANGED <<current_collection, viewVars>>
            /\ msgs' = <<>>
            /\ calls' = <<ListCall(FALSE)>>
    /\ UNCHANGED <<coerceVars, protoVars, sessionVars, storeVars, search_input, dialog>>

\* _on_collection_clicked(name)
CollectionClicked(name, loadOk) ==
    /\ started
    /\ dialog.kind = "none"
    /\ current_collection' = name
    /\ SetView(load_docs(View, find_docs(store, name, MAX_ROWS), loadOk))
    /\ last_op' = "collection"
    /\ msgs' = LoadBoxes(loadOk)
    /\ calls' = <<FindCall(name, loadOk)>>
    /\ UNCHANGED <<coerceVars, protoVars, sessionVars, storeVars, started, search_input, dialog>>

\* _on_refresh_clicked
RefreshClicked(ok) ==
    /\ started
    /\ dialog.kind = "none"
    /\ last_op' = "refresh"
    /\ IF current_collection # "None"
       THEN /\ SetView(load_docs(View, find_docs(store, current_collection, MAX_ROWS), ok))
            /\ msgs' = LoadBoxes(ok)
            /\ calls' = <<FindCall(current_collection, ok)>>
       ELSE /\ UNCHANGED viewVars
            /\ msgs' = <<>>
            /\ calls' = <<ListCall(ok)>>
    /\ UNCHANGED <<coerceVars, protoVars, sessionVars, storeVars, started, current_collection, search_input, dialog>>

\* a search that filters the rows on display instead of the cache
MutSearchFiltersRows(v, text, found, ok) ==
    LET q == Strip(text)
        filtered == filter_docs(v.rows, q)
    IN  IF q = <<>> THEN load_docs(v, found, ok)
        ELSE [populate_table(v, filtered) EXCEPT
                !.label = [kind |-> "filtered", n |-> Len(filtered)]]

\* a cleared search that shows the cache again instead of loading
MutSearchClearRestoresCache(v, text, found, ok) ==
    LET q == Strip(text)
        filtered == filter_docs(v.cache, q)
    IN  IF q = <<>>
        THEN [populate_table(v, v.cache) EXCEPT
                !.label = [kind |-> "showing", n |-> Len(v.cache)]]
        ELSE [populate_table(v, filtered) EXCEPT
                !.label = [kind |-> "filtered", n |-> Len(filtered)]]

\* _on_search_clicked with a collection selected, on the view v: text is the
\* search box's text, found and ok the outcome of the find_docs a cleared query
\* issues
search_view(v, text, found, ok) ==
    LET q == Strip(text)
        filtered == filter_docs(v.cache, q)
    IN  IF q = <<>> THEN load_docs(v, found, ok)
        ELSE [populate_table(v, filtered) EXCEPT
                !.label = [kind |-> "filtered", n |-> Len(filtered)]]

\* the store calls of _on_search_clicked
search_calls(coll, text, ok) ==
    IF coll = "None" \/ Strip(text) # <<>> THEN <<>> ELSE <<FindCall(coll, ok)>>

\* the user types text into the search box and clicks Search
SearchClicked(text, ok) ==
    /\ started
    /\ dialog.kind = "none"
    /\ search_input' = text
    /\ last_op' = "search"
    /\ IF current_collection = "None"
       THEN UNCHANGED viewVars
       ELSE SetView(search_view(View, text,
                                find_docs(store, current_collection, MAX_ROWS), ok))
    /\ calls' = search_calls(current_collection, text, ok)
    /\ msgs' = IF calls' = <<>> THEN <<>> ELSE LoadBoxes(ok)
    /\ UNCHANGED <<coerceVars, protoVars, sessionVars, storeVars, started, current_collection, dialog>>

\* the user clicks table row r
SelectRow(r) ==
    /\ started
    /\ dialog.kind = "none"
    /\ r \in 1..Len(table_rows)
    /\ selected' = r
    /\ last_op' = "select"
    /\ msgs' = <<>>
    /\ calls' = <<>>
    /\ UNCHANGED <<coerceVars, protoVars, sessionVars, storeVars, started, current_collection, docs_cache,
                   table_keys, table_rows, count_label, search_input, dialog>>

\* another session (the member page, another admin) inserts a document
EnvInsert(coll, d) ==
    /\ store' = [store EXCEPT ![coll] = Append(@, d)]
    /\ last_op' = "env"
    /\ msgs' = <<>>
    /\ calls' = <<>>
    /\ UNCHANGED <<coerceVars, protoVars, sessionVars, next_id, adminVars>>

\* another session deletes the i-th document of a collection
EnvDelete(coll, i) ==
    /\ i \in 1..Len(store[coll])
    /\ store' = [store EXCEPT ![coll] = SubSeq(@, 1, i - 1) \o SubSeq(@, i + 1, Len(@))]
    /\ last_op' = "env"
    /\ msgs' = <<>>
    /\ calls' = <<>>
    /\ UNCHANGED <<coerceVars, protoVars, sessionVars, next_id, adminVars>>

----------------------------------------------------------------------------
(* The insert and edit forms (AdminPage._show_insert_dialog,               *)
(* AdminPage._show_edit_dialog)                                            *)
(*                                                                         *)
(* A form is the sequence of its input widgets in creation order.  A       *)
(* widget is a combo box (items of label and data, current index from 1),  *)
(* a line edit or a plain text edit (text).                                *)

K_notes == <<"n", "o", "t", "e", "s">>

K_message == <<"m", "e", "s", "s", "a", "g", "e">>

K_maintenanceNote == <<"m", "a", "i", "n", "t", "e", "n", "a", "n", "c", "e", "N",
        "o", "t", "e">>

K_description == <<"d", "e", "s", "c", "r", "i", "p", "t", "i", "o", "n">>

long_fields == {K_notes, K_message, K_maintenanceNote, K_description}

PayPrefix == K_payment \o <<"_", "_">>

K_payment__amount == PayPrefix \o K_amount

K_payment__method == PayPrefix \o K_method

K_payment__paidAt == PayPrefix \o K_paidAt

K_payment__status == PayPrefix \o K_status

\* s.startswith(p)
StartsWithText(s, p) == Len(s) >= Len(p) /\ SubSeq(s, 1, Len(p)) = p

\* s.isdigit()
IsDigits(s) == s # <<>> /\ \A i \in 1..Len(s) : IsDigit(s[i])

CollText(c) ==
    CASE c = "membershipLevels" -> <<"m", "e", "m", "b", "e", "r", "s", "h", "i",
        "p", "L", "e", "v", "e", "l", "s">>
      [] c = "members" -> <<"m", "e", "m", "b", "e", "r", "s">>
      [] c = "facilities" -> <<"f", "a", "c", "i", "l", "i", "t", "i", "e", "s">>
      [] c = "bookings" -> <<"b", "o", "o", "k", "i", "n", "g", "s">>
      [] c = "usageLogs" -> <<"u", "s", "a", "g", "e", "L", "o", "g", "s">>
      [] OTHER -> <<"n", "o", "t", "i", "f", "i", "c", "a", "t", "i", "o", "n", "s">>

ChooseLevelLabel == <<"-", "-", " ", "c", "h", "o", "o", "s", "e", " ", "m", "e",
        "m", "b", "e", "r", "s", "h", "i", "p", " ", "l", "e", "v", "e", "l", " ",
        "-", "-">>

ErrorLevelsLabel == <<"E", "r", "r", "o", "r", " ", "l", "o", "a", "d", "i", "n",
        "g", " ", "l", "e", "v", "e", "l", "s">>

ErrorItemsLabel == <<"E", "r", "r", "o", "r", " ", "l", "o", "a", "d", "i", "n", "g",
        " ", "i", "t", "e", "m", "s">>

\* f"-- choose {target} --"
ChooseLabel(target) ==
    IF target = "membershipLevels" THEN ChooseLevelLabel
    ELSE <<"-", "-", " ", "c", "h", "o", "o", "s", "e",
        " ">> \o CollText(target) \o <<" ", "-", "-">>

ErrorLabel(target) ==
    IF target = "membershipLevels" THEN ErrorLevelsLabel ELSE ErrorItemsLabel

\* the limit of the lookup behind a selectable list
lookup_limit(target) == IF target = "membershipLevels" THEN 500 ELSE 1000

Item(label, data) == [label |-> label, data |-> data]

\* hint is the kind of placeholder of a text input: "iso" for the ISO
\* date-time example of the fallback heuristics, "none" otherwise
Combo(k, items, idx) ==
    [k |-> k, w |-> "combo", items |-> items, idx |-> idx, text |-> <<>>,
     hint |-> "none"]

LineEdit(k, text) ==
    [k |-> k, w |-> "line", items |-> <<>>, idx |-> 0, text |-> text,
     hint |-> "none"]

TimeLineEdit(k, text) ==
    [k |-> k, w |-> "line", items |-> <<>>, idx |-> 0, text |-> text,
     hint |-> "iso"]

PlainTextEdit(k, text) ==
    [k |-> k, w |-> "plain", items |-> <<>>, idx |-> 0, text |-> text,
     hint |-> "none"]

\* ("date", "time", "at", "start", "end")
time_subs == {<<"d", "a", "t", "e">>, <<"t", "i", "m", "e">>, <<"a", "t">>,
              <<"s", "t", "a", "r", "t">>, <<"e", "n", "d">>}

\* any(sub in f.lower() for sub in ("date", "time", "at", "start", "end"))
time_named(f) == \E sub \in time_subs : Contains(Lower(f), sub)

\* a fallback that gives every single-line input the ISO placeholder
MutAlwaysHinted(f, text) ==
    IF f \in long_fields \/ (EndsWith(f, "s") /\ f \notin {K_status, K_type})
    THEN PlainTextEdit(f, text)
    ELSE TimeLineEdit(f, text)

\* the fallback heuristics: a multi-line input for long text fields and plural
\* names, else a line edit with the ISO placeholder for a name that contains
\* a time word, a plain line edit otherwise
text_widget(f, text) ==
    IF f \in long_fields \/ (EndsWith(f, "s") /\ f \notin {K_status, K_type})
    THEN PlainTextEdit(f, text)
    ELSE IF time_named(f) THEN TimeLineEdit(f, text)
    ELSE LineEdit(f, text)

payment_widgets(amount, method, paidAt, status) ==
    <<LineEdit(K_payment__amount, amount), LineEdit(K_payment__method, method),
      LineEdit(K_payment__paidAt, paidAt), LineEdit(K_payment__status, status)>>

\* the collection a field of the insert form refers to, "None" for a field
\* that is no reference
insert_target(coll, f) ==
    IF coll = "members" /\ f = K_membershipLevelId THEN "membershipLevels"
    ELSE IF coll \in {"bookings", "usageLogs"} /\ f = K_memberId THEN "members"
    ELSE IF coll \in {"bookings", "usageLogs"} /\ f = K_facilityId THEN "facilities"
    ELSE IF coll = "bookings" /\ f = K_payment THEN "None"
    ELSE IF coll = "notifications" /\ f = K_memberId THEN "members"
    ELSE IF coll = "notifications" /\ f = K_bookingId THEN "bookings"
    ELSE "None"

\* the collection a field of the edit form refers to
edit_target(coll, f) ==
    IF coll = "members" /\ f = K_membershipLevelId THEN "membershipLevels"
    ELSE IF coll \in {"bookings", "usageLogs"} /\ f = K_memberId THEN "members"
    ELSE IF coll \in {"bookings", "usageLogs"} /\ f = K_facilityId THEN "facilities"
    ELSE "None"

\* the label of a target document in the insert form; ok is FALSE when
\* addItem raises on a label that is no text
insert_label(target, d) ==
    LET id == DocGet(d, K_id, VNull)
        name == DocGet(d, K_name, VNull)
        full == Strip(PyStr(DocGet(d, K_firstName, VStr(<<>>))) \o <<" ">>
                      \o PyStr(DocGet(d, K_lastName, VStr(<<>>))))
    IN  CASE target = "membershipLevels" ->
               [ok |-> TRUE, text |-> PyStr(IF Truthy(name) THEN name ELSE id)]
          [] target = "members" ->
               [ok |-> TRUE, text |-> IF full = <<>> THEN PyStr(id) ELSE full]
          [] target = "facilities" ->
               IF Truthy(name) THEN [ok |-> name.t = "str", text |-> name.s]
               ELSE [ok |-> TRUE, text |-> PyStr(id)]
          [] OTHER -> [ok |-> TRUE, text |-> PyStr(id)]

\* the label of a target document in the edit form
edit_label(target, d) ==
    LET id == DocGet(d, K_id, VNull)
        name == DocGet(d, K_name, VNull)
        full == Strip(PyStr(DocGet(d, K_firstName, VStr(<<>>))) \o <<" ", " ">>
                      \o PyStr(DocGet(d, K_lastName, VStr(<<>>))))
    IN  CASE target = "membershipLevels" ->
               [ok |-> TRUE, text |-> PyStr(IF Truthy(name) THEN name ELSE id)]
          [] target = "members" -> [ok |-> TRUE, text |-> full]
          [] OTHER ->
               IF Truthy(name) THEN [ok |-> name.t = "str", text |-> name.s]
               ELSE [ok |-> TRUE, text |-> PyStr(id)]

RECURSIVE add_items(_, _, _, _)
\* for doc_item in docs: combo.addItem(label, doc_item.get("_id")); an
\* exception ends the loop and adds the error entry
add_items(items, form, target, docs) ==
    IF docs = <<>> THEN [ok |-> TRUE, items |-> items]
    ELSE LET l == IF form = "insert" THEN insert_label(target, Head(docs))
                  ELSE edit_label(target, Head(docs))
         IN  IF l.ok
             THEN add_items(Append(items, Item(l.text, DocGet(Head(docs), K_id,
        VNull))),
                            form, target, Tail(docs))
             ELSE [ok |-> FALSE, items |-> Append(items, Item(ErrorLabel(target),
        VNull))]

\* the entries of a selectable list: the placeholder, then one entry per
\* target document; the error entry alone when find_docs raises
combo_items(form, target, st, ok) ==
    IF ok
    THEN add_items(<<Item(ChooseLabel(target), VNull)>>, form, target,
                   find_docs(st, target, lookup_limit(target)))
    ELSE [ok |-> FALSE, items |-> <<Item(ErrorLabel(target), VNull)>>]

\* combo.findData(v): the first entry holding v, 0 for none
find_data(items, v) ==
    IF \E i \in 1..Len(items) : items[i].data = v
    THEN CHOOSE i \in 1..Len(items) :
            items[i].data = v /\ \A j \in 1..(i - 1) : items[j].data # v
    ELSE 0

\* the current index of the edit form's list: the entry of the current value
\* when there is one
edit_index(built, cur) ==
    IF built.ok /\ cur # VNull /\ find_data(built.items, cur) > 0
    THEN find_data(built.items, cur)
    ELSE 1

RECURSIVE insert_fields(_, _)
\* the union of the keys of the sampled documents, _id excluded
insert_fields(keys, docs) ==
    IF docs = <<>> THEN keys
    ELSE insert_fields(AppendNew(keys, DocKeys(DocPop(Head(docs), K_id))), Tail(docs))

RECURSIVE insert_widgets(_, _, _, _)
\* the widgets of the insert form for the fields, in order; bad holds the
\* reference fields whose lookup raises
insert_widgets(coll, fields, st, bad) ==
    IF fields = <<>> THEN <<>>
    ELSE LET f == Head(fields)
             target == insert_target(coll, f)
         IN  (IF target # "None"
              THEN <<Combo(f, combo_items("insert", target, st, f \notin bad).items, 1)>>
              ELSE IF coll = "bookings" /\ f = K_payment
              THEN payment_widgets(<<>>, <<>>, <<>>, <<>>)
              ELSE <<text_widget(f, <<>>)>>)
             \o insert_widgets(coll, Tail(fields), st, bad)

\* an edit form that offers the identifier as a field
MutEditFieldsKeepId(doc) == DocKeys(doc)

\* fields = [k for k in doc.keys() if k != "_id"]
edit_fields(doc) == SelectSeq(DocKeys(doc), LAMBDA k : k # K_id)

\* str(doc.get("payment", {}).get(sub, ""))
payment_prefill(doc, sub) ==
    PyStr(DocGet(DocGet(doc, K_payment, VDict(<<>>)).items, sub, VStr(<<>>)))

RECURSIVE edit_widgets(_, _, _, _, _)
\* the widgets of the edit form of doc, pre-filled
edit_widgets(coll, fields, doc, st, bad) ==
    IF fields = <<>> THEN <<>>
    ELSE LET f == Head(fields)
             target == edit_target(coll, f)
             built == combo_items("edit", target, st, f \notin bad)
         IN  (IF coll = "bookings" /\ f = K_payment
                 /\ DocGet(doc, K_payment, VNull).t = "dict"
              THEN payment_widgets(payment_prefill(doc, K_amount),
                                   payment_prefill(doc, K_method),
                                   payment_prefill(doc, K_paidAt),
                                   payment_prefill(doc, K_status))
              ELSE IF target # "None"
              THEN <<Combo(f, built.items, edit_index(built, DocGet(doc, f, VNull)))>>
              ELSE <<text_widget(f, PyStr(DocGet(doc, f, VStr(<<>>))))>>)
             \o edit_widgets(coll, Tail(fields), doc, st, bad)

RECURSIVE lookup_calls(_, _, _, _, _)
\* the find_docs calls behind the selectable lists of a form
lookup_calls(by, form, coll, fields, bad) ==
    IF fields = <<>> THEN <<>>
    ELSE LET f == Head(fields)
             target == IF form = "insert" THEN insert_target(coll, f)
                       ELSE edit_target(coll, f)
         IN  (IF target = "None" THEN <<>>
              ELSE <<Call(by, "find_docs", target, VNull, <<>>, f \notin bad)>>)
             \o lookup_calls(by, form, coll, Tail(fields), bad)

\* widgets.get(k): the position of the widget, 0 for None
widget_at(ws, k) ==
    IF \E i \in 1..Len(ws) : ws[i].k = k
    THEN CHOOSE i \in 1..Len(ws) : ws[i].k = k
    ELSE 0

\* a list that resolves the current entry through its label
MutDataByLabel(w) ==
    w.items[CHOOSE i \in 1..Len(w.items) :
                /\ w.items[i].label = w.items[w.idx].label
                /\ \A j \in 1..(i - 1) : w.items[j].label # w.items[w.idx].label].data

\* combo.currentData()
current_data(w) ==
    w.items[w.idx].data

\* int(raw) if raw.isdigit() else float(raw), and coerce_value(raw) when that
\* raises
payment_amount(txt) ==
    IF IsDigits(txt) THEN PyInt(txt).val ELSE ValueOr(PyFloat(txt), coerce_value(txt))

edit_payment_amount(txt) ==
    IF IsDigits(txt) THEN PyInt(txt).val ELSE ValueOr(PyFloat(txt), edit_coerce_value(txt))

\* the trimmed text of the payment input sub, empty when the form has none
payment_input(ws, sub) ==
    IF widget_at(ws, PayPrefix \o sub) = 0 THEN <<>>
    ELSE Strip(ws[widget_at(ws, PayPrefix \o sub)].text)

\* a reassembly that keeps the empty sub-fields
MutPaymentKeepsEmpty(ws) ==
    IF widget_at(ws, K_payment__amount) = 0 THEN <<>>
    ELSE <<Entry(K_amount, payment_amount(payment_input(ws, K_amount))),
           Entry(K_method, VStr(payment_input(ws, K_method))),
           Entry(K_paidAt, VStr(payment_input(ws, K_paidAt))),
           Entry(K_status, VStr(payment_input(ws, K_status)))>>

\* payment_obj of on_ok: the sub-fields with a non-empty input
payment_obj(ws) ==
    (IF payment_input(ws, K_amount) = <<>> THEN <<>>
     ELSE <<Entry(K_amount, payment_amount(payment_input(ws, K_amount)))>>)
    \o (IF payment_input(ws, K_method) = <<>> THEN <<>>
        ELSE <<Entry(K_method, VStr(payment_input(ws, K_method)))>>)
    \o (IF payment_input(ws, K_paidAt) = <<>> THEN <<>>
        ELSE <<Entry(K_paidAt, VStr(payment_input(ws, K_paidAt)))>>)
    \o (IF payment_input(ws, K_status) = <<>> THEN <<>>
        ELSE <<Entry(K_status, VStr(payment_input(ws, K_status)))>>)

\* payment_obj of on_save
edit_payment_obj(ws) ==
    (IF payment_input(ws, K_amount) = <<>> THEN <<>>
     ELSE <<Entry(K_amount, edit_payment_amount(payment_input(ws, K_amount)))>>)
    \o (IF payment_input(ws, K_method) = <<>> THEN <<>>
        ELSE <<Entry(K_method, VStr(payment_input(ws, K_method)))>>)
    \o (IF payment_input(ws, K_paidAt) = <<>> THEN <<>>
        ELSE <<Entry(K_paidAt, VStr(payment_input(ws, K_paidAt)))>>)
    \o (IF payment_input(ws, K_status) = <<>> THEN <<>>
        ELSE <<Entry(K_status, VStr(payment_input(ws, K_status)))>>)

RECURSIVE on_ok_fields(_, _)
\* the loop of on_ok over the widgets: a list gives its current data, a text
\* input its coerced text; the payment inputs are skipped
on_ok_fields(doc, ws) ==
    IF ws = <<>> THEN doc
    ELSE LET w == Head(ws) IN
         on_ok_fields(
            IF StartsWithText(w.k, PayPrefix) THEN doc
            ELSE IF w.w = "combo" THEN DictSet(doc, w.k, current_data(w))
            ELSE DictSet(doc, w.k, coerce_value(w.text)),
            Tail(ws))

\* if has_payment_value: doc["payment"] = payment_obj
with_payment(doc, payment) ==
    IF payment # <<>> THEN DictSet(doc, K_payment, VDict(payment)) ELSE doc

\* the document on_ok submits: the fields, the payment object when a payment
\* input is non-empty, and no _id
on_ok_doc(ws) ==
    DocPop(with_payment(on_ok_fields(<<>>, ws), payment_obj(ws)), K_id)

RECURSIVE on_save_fields(_, _)
\* the loop of on_save over the widgets
on_save_fields(update, ws) ==
    IF ws = <<>> THEN update
    ELSE LET w == Head(ws) IN
         on_save_fields(
            IF StartsWithText(w.k, PayPrefix) THEN update
            ELSE IF w.w = "combo" THEN DictSet(update, w.k, current_data(w))
            ELSE DictSet(update, w.k, edit_coerce_value(w.text)),
            Tail(ws))

\* the update on_save submits
on_save_update(ws) ==
    with_payment(on_save_fields(<<>>, ws), edit_payment_obj(ws))

InsertDialog(coll, ws) == [kind |-> "insert", coll |-> coll, doc |-> <<>>, widgets |-> ws]

EditDialog(coll, doc, ws) == [kind |-> "edit", coll |-> coll, doc |-> doc, widgets |-> ws]

\* the fields the insert form is built from: keys of sample_docs[:10]
sample_fields == insert_fields(<<>>, Take(docs_cache, 10))

\* pymongo's insert_one raises on a document that is no mapping and on an _id
\* the collection already holds
insert_rejected(st, coll, v) ==
    \/ v.t # "dict"
    \/ /\ DocHas(v.items, K_id)
       /\ \E i \in 1..Len(st[coll]) :
             DocGet(st[coll][i], K_id, VNull) = DocGet(v.items, K_id, VNull)

\* _on_insert_clicked with fields to infer (or no collection): the insert form
\* opens; bad holds the reference fields whose lookup raises
InsertClicked(bad) ==
    /\ started
    /\ dialog.kind = "none"
    /\ last_op' = "insert_clicked"
    /\ IF current_collection = "None"
       THEN /\ msgs' = <<Box("warning", "No Collection")>>
            /\ calls' = <<>>
            /\ UNCHANGED dialog
       ELSE /\ sample_fields # <<>>
            /\ dialog' = InsertDialog(current_collection,
                            insert_widgets(current_collection, sample_fields, store, bad))
            /\ msgs' = <<>>
            /\ calls' = lookup_calls("show_insert_dialog", "insert",
                                     current_collection, sample_fields, bad)
    /\ UNCHANGED <<coerceVars, protoVars, sessionVars, storeVars, started, current_collection, viewVars,
                   search_input>>

\* _on_insert_clicked without fields to infer: the JSON editor; text is what
\* the user leaves in it, accepted is FALSE on Cancel, ok is FALSE when
\* insert_doc raises
InsertJson(text, accepted, ok, loadOk) ==
    /\ started
    /\ dialog.kind = "none"
    /\ current_collection # "None"
    /\ sample_fields = <<>>
    /\ last_op' = "insert_json"
    /\ \E parsed \in {JsonLoads(text)} :
       \E done \in {ok /\ ~insert_rejected(store, current_collection, parsed.val)} :
       IF ~accepted
       THEN msgs' = <<>> /\ calls' = <<>> /\ UNCHANGED <<storeVars, viewVars>>
       ELSE IF ~parsed.ok
       THEN /\ msgs' = <<Box("warning", "JSON error")>>
            /\ calls' = <<>>
            /\ UNCHANGED <<storeVars, viewVars>>
       ELSE IF ~done
       THEN /\ msgs' = <<Box("critical", "Insert failed")>>
            /\ calls' = <<Call("on_insert_clicked", "insert_doc", current_collection,
                               VNull, parsed.val.items, FALSE)>>
            /\ UNCHANGED <<storeVars, viewVars>>
       ELSE /\ store' = insert_doc(store, current_collection, parsed.val.items, next_id)
            /\ next_id' = IF DocHas(parsed.val.items, K_id) THEN next_id ELSE next_id + 1
            /\ SetView(load_docs(View, find_docs(store', current_collection, MAX_ROWS),
                                 loadOk))
            /\ msgs' = <<Box("information", "Inserted")>> \o LoadBoxes(loadOk)
            /\ calls' = <<Call("on_insert_clicked", "insert_doc", current_collection,
                               VNull, parsed.val.items, TRUE),
                          FindCall(current_collection, loadOk)>>
    /\ UNCHANGED <<coerceVars, protoVars, sessionVars, started, current_collection, search_input, dialog>>

\* the user types s into the i-th input of the open form
EditInput(i, s) ==
    /\ dialog.kind # "none"
    /\ i \in 1..Len(dialog.widgets)
    /\ dialog.widgets[i].w \in {"line", "plain"}
    /\ dialog.widgets[i].text # s
    /\ dialog' = [dialog EXCEPT !.widgets[i].text = s]
    /\ last_op' = "input"
    /\ msgs' = <<>>
    /\ calls' = <<>>
    /\ UNCHANGED <<coerceVars, protoVars, sessionVars, storeVars, started, current_collection, viewVars,
                   search_input>>

\* the user picks the j-th entry of the i-th input, a selectable list
ChooseItem(i, j) ==
    /\ dialog.kind # "none"
    /\ i \in 1..Len(dialog.widgets)
    /\ dialog.widgets[i].w = "combo"
    /\ j \in 1..Len(dialog.widgets[i].items)
    /\ dialog.widgets[i].idx # j
    /\ dialog' = [dialog EXCEPT !.widgets[i].idx = j]
    /\ last_op' = "input"
    /\ msgs' = <<>>
    /\ calls' = <<>>
    /\ UNCHANGED <<coerceVars, protoVars, sessionVars, storeVars, started, current_collection, viewVars,
                   search_input>>

\* on_cancel of either form
CancelDialog ==
    /\ dialog.kind # "none"
    /\ dialog' = NoDialog
    /\ last_op' = "on_cancel"
    /\ msgs' = <<>>
    /\ calls' = <<>>
    /\ UNCHANGED <<coerceVars, protoVars, sessionVars, storeVars, started, current_collection, viewVars,
                   search_input>>

\* the key of a document in the unique index on members.email: a document
\* without the field is indexed under null
email_key(doc) == DocGet(doc, K_email, VNull)

\* insert_one meets a unique index: the collection is members and a stored
\* member has the document's email
duplicate_key(st, coll, doc) ==
    /\ coll = "members"
    /\ \E i \in 1..Len(st[coll]) : email_key(st[coll][i]) = email_key(doc)

\* what a failing insert_one raises: DuplicateKeyError only for a document
\* the unique index rejects
insert_errors(st, coll, doc) ==
    {"Exception"} \cup
    (IF duplicate_key(st, coll, doc) THEN {"DuplicateKeyError"} ELSE {})

\* a duplicate key reported like any other failure
MutDuplicateAsFailure(err) == Box("critical", "Insert failed")

\* the box on_ok shows for the exception err
insert_failed_box(err) ==
    IF err = "DuplicateKeyError"
    THEN [Box("critical", "Insert failed") EXCEPT !.text = "Duplicate key error: "]
    ELSE Box("critical", "Insert failed")

\* on_ok of the insert form: ok is FALSE when insert_doc raises, loadOk when
\* the reload's find_docs raises
SubmitInsert(ok, loadOk) ==
    /\ dialog.kind = "insert"
    /\ last_op' = "on_ok"
    /\ \E doc \in {on_ok_doc(dialog.widgets)} :
       IF ok
       THEN /\ store' = insert_doc(store, dialog.coll, doc, next_id)
            /\ next_id' = next_id + 1
            /\ dialog' = NoDialog
            /\ SetView(load_docs(View, find_docs(store', dialog.coll, MAX_ROWS), loadOk))
            /\ msgs' = <<Box("information", "Inserted")>> \o LoadBoxes(loadOk)
            /\ calls' = <<Call("on_ok", "insert_doc", dialog.coll, VNull, doc, TRUE),
                          FindCall(dialog.coll, loadOk)>>
       ELSE /\ \E err \in insert_errors(store, dialog.coll, doc) :
                  /\ msgs' = <<insert_failed_box(err)>>
                  /\ calls' = <<Raised("on_ok", "insert_doc", dialog.coll, VNull, doc,
                                        err)>>
            /\ UNCHANGED <<storeVars, dialog, viewVars>>
    /\ UNCHANGED <<coerceVars, protoVars, sessionVars, started, current_collection, search_input>>

\* on_save of the edit form
SubmitEdit(ok, loadOk) ==
    /\ dialog.kind = "edit"
    /\ last_op' = "on_save"
    /\ \E update \in {on_save_update(dialog.widgets)} :
       \E ident \in {DocGet(dialog.doc, K_id, VNull)} :
       IF ident = VNull
       THEN /\ msgs' = <<Box("critical", "Update failed")>>
            /\ calls' = <<>>
            /\ UNCHANGED <<store, dialog, viewVars>>
       ELSE IF ok
       THEN /\ store' = update_doc(store, dialog.coll, ident, update)
            /\ dialog' = NoDialog
            /\ SetView(load_docs(View, find_docs(store', dialog.coll, MAX_ROWS), loadOk))
            /\ msgs' = <<modified_box("Updated", store, dialog.coll, ident, update)>>
                        \o LoadBoxes(loadOk)
            /\ calls' = <<Call("on_save", "update_doc", dialog.coll, ident, update, TRUE),
                          FindCall(dialog.coll, loadOk)>>
       ELSE /\ msgs' = <<Box("critical", "Update failed")>>
            /\ calls' = <<Call("on_save", "update_doc", dialog.coll, ident, update, FALSE)>>
            /\ UNCHANGED <<store, dialog, viewVars>>
    /\ UNCHANGED <<coerceVars, protoVars, sessionVars, next_id, started, current_collection, search_input>>

\* _on_edit_clicked: the edit form of the selected row's document opens
EditClicked(bad) ==
    /\ started
    /\ dialog.kind = "none"
    /\ last_op' = "edit_clicked"
    /\ IF current_collection = "None"
       THEN /\ msgs' = <<Box("warning", "No Collection")>>
            /\ calls' = <<>>
            /\ UNCHANGED dialog
       ELSE IF selected = 0
       THEN /\ msgs' = <<Box("warning", "No selection")>>
            /\ calls' = <<>>
            /\ UNCHANGED dialog
       ELSE LET doc == table_rows[selected] IN
            /\ dialog' = EditDialog(current_collection, doc,
                            edit_widgets(current_collection, edit_fields(doc), doc,
                                         store, bad))
            /\ msgs' = <<>>
            /\ calls' = lookup_calls("show_edit_dialog", "edit", current_collection,
                                     edit_fields(doc), bad)
    /\ UNCHANGED <<coerceVars, protoVars, sessionVars, storeVars, started, current_collection, viewVars,
                   search_input>>

\* _on_delete_clicked: confirmed is the answer to the confirmation box
DeleteClicked(confirmed, ok, loadOk) ==
    /\ started
    /\ dialog.kind = "none"
    /\ last_op' = "delete_clicked"
    /\ IF selected = 0
       THEN /\ msgs' = <<Box("warning", "No selection")>>
            /\ calls' = <<>>
            /\ UNCHANGED <<store, viewVars>>
       ELSE LET ident == DocGet(table_rows[selected], K_id, VNull) IN
            IF ~confirmed
            THEN /\ msgs' = <<Box("question", "Confirm Delete")>>
                 /\ calls' = <<>>
                 /\ UNCHANGED <<store, viewVars>>
            ELSE IF ok
            THEN /\ store' = delete_doc(store, current_collection, ident)
                 /\ SetView(load_docs(View,
                                find_docs(store', current_collection, MAX_ROWS), loadOk))
                 /\ msgs' = <<Box("question", "Confirm Delete"),
                              Box("information", "Deleted")>> \o LoadBoxes(loadOk)
                 /\ calls' = <<Call("on_delete_clicked", "delete_doc",
                                    current_collection, ident, <<>>, TRUE),
                               FindCall(current_collection, loadOk)>>
            ELSE /\ msgs' = <<Box("question", "Confirm Delete"),
                              Box("critical", "Delete failed")>>
                 /\ calls' = <<Call("on_delete_clicked", "delete_doc",
                                    current_collection, ident, <<>>, FALSE)>>
                 /\ UNCHANGED <<store, viewVars>>
    /\ UNCHANGED <<coerceVars, protoVars, sessionVars, next_id, started, current_collection, search_input,
                   dialog>>

----------------------------------------------------------------------------
(* Bounds and input domains                                                *)

MaxTextLen == 3

MaxInt == 12

MaxMant == 12

MaxExp == 17

\* fields of a sampled document besides _id, and documents of a sample
MaxKeys == 1

MaxSample == 2

\* documents of a browsed collection
MaxDocs == 2

\* characters a user types into an input
InputAlphabet == {" ", "1", "e", ".", "-", "[", "]", "t"}

TextsUpTo(alphabet, n) ==
    UNION {[1..k -> alphabet] : k \in 0..n}

\* longer inputs of interest
ExtraInputs ==
    { <<"t", "r", "u", "e">>, <<"T", "r", "u", "e">>, <<"F", "A", "L", "S", "E">>,
      <<" ", "f", "a", "l", "s", "e">>, <<"1", "e", "+", "1", "6">>,
      <<"1", "_", "0">>, <<"{", "}">>, <<"{", "1", "}">>,
      <<"[", "1", ",", " ", "1", "]">>,
      <<"{", "\"", "a", "\"", ":", "1", "}">>, <<"c", "a", "s", "h">> }

Inputs == TextsUpTo(InputAlphabet, MaxTextLen) \cup ExtraInputs

IntValues == {VInt(n) : n \in (-MaxInt)..MaxInt}

BoolValues == {VBool(TRUE), VBool(FALSE)}

FloatValues ==
    {VFloat(sg, NatDigits(m), e) : sg \in {-1, 1}, m \in 0..MaxMant,
                                   e \in (-MaxExp)..MaxExp}
    \cup {VInf(1), VInf(-1), VNaN}

StrValues == {VStr(s) : s \in Inputs}

\* the values the round trip is claimed for
ScalarValues == IntValues \cup BoolValues \cup FloatValues \cup StrValues

EmptyStore == [c \in CollectionNames |-> <<>>]

Range(q) == {q[i] : i \in 1..Len(q)}

\* sequences without repetition over a set, of length at most n
RECURSIVE DistinctSeqs(_, _)
DistinctSeqs(S, n) ==
    IF n = 0 THEN {<<>>}
    ELSE LET shorter == DistinctSeqs(S, n - 1) IN
         shorter \cup UNION {{Append(q, x) : x \in S \ Range(q)} : q \in shorter}

\* the field names of sampled documents: two preferred ones and two others
SampleKeys == {K_status, K_name, K_zip, K_age}

\* a stored document with identifier n and the fields ks, in that order
KeyDoc(n, ks) == <<Entry(K_id, VOid(n))>> \o [i \in 1..Len(ks) |-> Entry(ks[i], VNull)]

\* samples: up to MaxSample stored documents of up to MaxKeys fields each
SchemaSamples ==
    UNION {[1..n -> DistinctSeqs(SampleKeys, MaxKeys)] : n \in 0..MaxSample}

SampleStore(ksq) ==
    [EmptyStore EXCEPT !["membershipLevels"] = [i \in 1..Len(ksq) |-> KeyDoc(i, ksq[i])]]

\* documents of the browsed collections
LevelA == <<Entry(K_id, VOid(1)), Entry(K_name, VStr(<<"A", "b">>)),
            Entry(K_tags, VList(<<VStr(<<"x">>)>>))>>

LevelB == <<Entry(K_id, VOid(2)), Entry(K_name, VStr(<<"b">>)), Entry(K_zip, VNull)>>

LevelC == <<Entry(K_id, VOid(3)), Entry(K_status, VStr(<<"a", " ", "B">>)),
            Entry(K_age, VInt(21))>>

MemberA == <<Entry(K_id, VOid(4)), Entry(K_firstName, VStr(<<"A", "l">>)),
             Entry(K_status, VStr(<<"a">>))>>

\* the documents other sessions insert: MaxDocs membership levels, one member
BrowsePool ==
    [c \in CollectionNames |->
        CASE c = "membershipLevels" -> Range(Take(<<LevelA, LevelB, LevelC>>, MaxDocs))
          [] c = "members" -> {MemberA}
          [] OTHER -> {}]

BrowsedCollections == {"membershipLevels", "members"}

\* what a user types into the search box
Queries == {<<>>, <<" ">>, <<"B">>, <<" ", "a", "b">>}

\* documents a referenced collection holds when a form opens
MaxTargets == 2

\* documents the forms insert in one run
MaxInserts == 1

\* documents of the collections the forms work on
Level1 == <<Entry(K_id, VOid(1)), Entry(K_name, VStr(<<"G">>))>>

Level2 == <<Entry(K_id, VOid(2))>>

Level3 == <<Entry(K_id, VOid(3)), Entry(K_name, VStr(<<"G">>))>>

Person(n, level) ==
    <<Entry(K_id, VOid(n)), Entry(K_firstName, VStr(<<"A">>)),
      Entry(K_lastName, VStr(<<"L">>)), Entry(K_membershipLevelId, VOid(level))>>

Facility1 == <<Entry(K_id, VOid(21)), Entry(K_name, VStr(<<"G">>))>>

Booking1 ==
    <<Entry(K_id, VOid(31)), Entry(K_memberId, VOid(11)), Entry(K_facilityId, VOid(21)),
      Entry(K_status, VStr(<<"o", "k">>)),
      Entry(K_payment, VDict(<<Entry(K_amount, VInt(50)),
                                Entry(K_method, VStr(<<"c", "a", "s", "h">>))>>))>>

Notification1 ==
    <<Entry(K_id, VOid(41)), Entry(K_memberId, VOid(11)), Entry(K_bookingId, VOid(31)),
      Entry(K_message, VStr(<<"h", "i">>))>>

\* members with one and the same name, hence one and the same label
SubmitStore ==
    [c \in CollectionNames |->
        CASE c = "membershipLevels" -> Take(<<Level1, Level2, Level3>>, MaxTargets)
          [] c = "members" ->
               Take(<<Person(11, 1), Person(12, 2), Person(13, 1)>>, MaxTargets)
          [] c = "facilities" -> <<Facility1>>
          [] c = "bookings" -> <<Booking1>>
          [] c = "notifications" -> <<Notification1>>
          [] OTHER -> <<>>]

SubmitCollections == {"members", "bookings", "notifications"}

\* the reference fields of the forms
RefFields == {K_membershipLevelId, K_memberId, K_facilityId, K_bookingId}

\* lookups that raise while a form opens: none, or one field's
BadLookups == {{}} \cup {{f} : f \in RefFields}

\* what a user types into the input of a field
SubmitTexts(k) ==
    CASE k = K_payment__amount ->
            {<<>>, <<"5", "0">>, <<" ", "5", ".", "5">>, <<"-", "5">>, <<"1", "e", "1">>,
             <<"x">>}
      [] k = K_payment__method -> {<<>>, <<" ">>, <<"c", "a", "s", "h", " ">>}
      [] k = K_payment__paidAt -> {<<>>, <<"t">>}
      [] k = K_payment__status -> {<<>>, <<"p">>}
      [] OTHER -> {<<>>, <<"5">>}

\* what a user types into the inputs and the JSON editor in runs of several
\* submissions
FormTexts == {<<>>, <<"5">>}

JsonTexts ==
    {<<"{", "}">>, <<"{", "\"", "_", "i", "d", "\"", ":", "1", "}">>,
     <<"[", "1", "]">>, <<"{">>}

----------------------------------------------------------------------------
(* Coercion of one form input                                              *)

CoerceInit ==
    /\ CoerceIdle
    /\ AdminInit
    /\ AdminSession
    /\ store = EmptyStore
    /\ next_id = 1

\* the user types s into a line edit or text edit
TypeText(s) ==
    /\ cpc = "start"
    /\ cpc' = "typed"
    /\ raw' = s
    /\ UNCHANGED <<shown, coerced, storeVars, adminVars, obsVars, sessionVars, protoVars>>

\* the edit form pre-fills the input of a field with str(doc.get(f, ""))
PrefillEdit(v) ==
    /\ cpc = "start"
    /\ cpc' = "prefilled"
    /\ shown' = v
    /\ raw' = PyStr(v)
    /\ UNCHANGED <<coerced, storeVars, adminVars, obsVars, sessionVars, protoVars>>

\* on_ok of the insert form: val = coerce_value(raw)
InsertCoerce ==
    /\ cpc = "typed"
    /\ cpc' = "insert_coerced"
    /\ coerced' = coerce_value(raw)
    /\ UNCHANGED <<raw, shown, storeVars, adminVars, obsVars, sessionVars, protoVars>>

\* on_save of the edit form: update[k] = coerce_value(raw)
EditCoerce ==
    /\ cpc \in {"typed", "prefilled"}
    /\ cpc' = IF cpc = "typed" THEN "edit_coerced" ELSE "round_trip"
    /\ coerced' = edit_coerce_value(raw)
    /\ UNCHANGED <<raw, shown, storeVars, adminVars, obsVars, sessionVars, protoVars>>

CoerceNext ==
    \/ \E s \in Inputs : TypeText(s)
    \/ \E v \in ScalarValues : PrefillEdit(v)
    \/ InsertCoerce
    \/ EditCoerce

SpecCoerce == CoerceInit /\ [][CoerceNext]_vars

----------------------------------------------------------------------------
(* C2, C3: input coercion                                                  *)

\* the classification of a raw input in the order the specification gives:
\* empty, boolean, integer, float, structured parse, literal
ClaimedCoercion(text) ==
    LET s == Strip(text) IN
    IF s = <<>> THEN VStr(<<>>)
    ELSE IF Lower(s) \in {TrueText, FalseText} THEN VBool(Lower(s) = TrueText)
    ELSE IF PyInt(s).ok THEN PyInt(s).val
    ELSE IF PyFloat(s).ok THEN PyFloat(s).val
    ELSE IF Bracketed(s) /\ JsonLoads(s).ok THEN JsonLoads(s).val
    ELSE VStr(s)

\* C2: every raw input is classified as empty, boolean, integer, float,
\* structured parse or literal, in that order; in particular whatever parses as
\* a float and not as an integer becomes a float
C2_CoercionOrder ==
    cpc \in {"insert_coerced", "edit_coerced"} => coerced = ClaimedCoercion(raw)

\* C3: coercing the display form of an integer, float, boolean or string gives
\* the value back, same type and same value
C3_RoundTrip ==
    cpc = "round_trip" => coerced = shown

----------------------------------------------------------------------------
(* Schema inference over samples                                           *)

SchemaInit ==
    /\ CoerceIdle
    /\ AdminInit
    /\ AdminSession
    /\ \E ksq \in SchemaSamples : store = SampleStore(ksq)
    /\ next_id = MaxSample + 1

SchemaNext ==
    \/ \E listOk, loadOk \in BOOLEAN : InitialLoad(listOk, loadOk)
    \/ \E c \in BrowsedCollections, ok \in BOOLEAN : CollectionClicked(c, ok)
    \/ \E ok \in BOOLEAN : RefreshClicked(ok)

SpecSchema == SchemaInit /\ [][SchemaNext]_vars

\* the field names of the rows on display
RowKeys == UNION {Range(DocKeys(table_rows[i])) : i \in 1..Len(table_rows)}

RECURSIVE KeyStream(_)
\* the field names of the documents in scanning order
KeyStream(docs) ==
    IF docs = <<>> THEN <<>> ELSE DocKeys(Head(docs)) \o KeyStream(Tail(docs))

FirstPos(k, stream) ==
    CHOOSE i \in 1..Len(stream) : stream[i] = k /\ \A j \in 1..(i - 1) : stream[j] # k

PreferredPresent == SelectSeq(preferred, LAMBDA k : k \in RowKeys)

\* C1: the columns hold every field name of the sampled documents exactly once
\* and no other name; the preferred fields that occur come first in the
\* preferred order, the others follow in first-encountered order
C1_SchemaInference ==
    /\ Range(table_keys) = RowKeys
    /\ \A i, j \in 1..Len(table_keys) : i # j => table_keys[i] # table_keys[j]
    /\ Take(table_keys, Len(PreferredPresent)) = PreferredPresent
    /\ \A i, j \in (Len(PreferredPresent) + 1)..Len(table_keys) :
          i < j => FirstPos(table_keys[i], KeyStream(table_rows))
                   < FirstPos(table_keys[j], KeyStream(table_rows))

C1_Witness ==
    /\ Len(table_rows) = 2
    /\ DocKeys(table_rows[1]) = <<K_id, K_zip>>
    /\ DocKeys(table_rows[2]) = <<K_id, K_name>>
    /\ table_keys = <<K_id, K_name, K_zip>>

----------------------------------------------------------------------------
(* The browser over a changing store                                       *)

BrowserInit ==
    /\ CoerceIdle
    /\ AdminInit
    /\ AdminSession
    /\ store = [EmptyStore EXCEPT !["membershipLevels"] = <<LevelA, LevelB>>,
                                  !["members"] = <<MemberA>>]
    /\ next_id = 5

BrowserNext ==
    \/ \E listOk, loadOk \in BOOLEAN : InitialLoad(listOk, loadOk)
    \/ \E c \in BrowsedCollections, ok \in BOOLEAN : CollectionClicked(c, ok)
    \/ \E ok \in BOOLEAN : RefreshClicked(ok)
    \/ \E text \in Queries :
          \E ok \in (IF Strip(text) = <<>> THEN BOOLEAN ELSE {TRUE}) :
              SearchClicked(text, ok)
    \/ \E c \in BrowsedCollections :
          \E d \in BrowsePool[c] \ Range(store[c]) : EnvInsert(c, d)
    \/ \E c \in BrowsedCollections : \E i \in 1..Len(store[c]) : EnvDelete(c, i)

SpecBrowser == BrowserInit /\ [][BrowserNext]_vars

\* q occurs in s, letter case ignored
ContainsIgnoringCase(s, q) ==
    \E i \in 1..(Len(s) - Len(q) + 1) :
        \A j \in 1..Len(q) : LowerChar(s[i + j - 1]) = LowerChar(q[j])

\* the cached documents that have a field value whose display form contains q
ClaimedFilter(cache, q) ==
    SelectSeq(cache, LAMBDA d :
        \E i \in 1..Len(d) : ContainsIgnoringCase(flatten_for_cell(d[i].v, 120), q))

\* C4: a search with a non-empty query shows exactly the cached documents that
\* have a field value whose display form contains the query, letter case
\* ignored, in cache order, and leaves the cache as it was; so the same query
\* again shows the same rows and another query is run on the full cache
C4_FilterPure ==
    [][(last_op' = "search" /\ Strip(search_input') # <<>>) =>
          /\ docs_cache' = docs_cache
          /\ table_rows' = ClaimedFilter(docs_cache, Strip(search_input'))]_vars

C4_Witness ==
    /\ last_op = "search"
    /\ search_input = <<" ", "a", "b">>
    /\ docs_cache = <<LevelB, LevelA>>
    /\ table_rows = <<LevelA>>

C6_LoadErrorKeepsView ==
    [][(/\ calls' # <<>>
        /\ calls'[Len(calls')].by = "load_docs"
        /\ ~calls'[Len(calls')].ok) =>
          /\ UNCHANGED <<docs_cache, table_rows, table_keys>>
          /\ msgs' # <<>>
          /\ msgs'[Len(msgs')] = Box("critical", "DB Error")]_vars

\* a collection click whose load failed while another collection's documents
\* are on display
C6_Witness ==
    /\ last_op = "collection"
    /\ current_collection = "members"
    /\ ~calls[1].ok
    /\ docs_cache = <<LevelA, LevelB>>
    /\ table_rows = <<LevelA, LevelB>>
    /\ table_keys # <<>>

----------------------------------------------------------------------------
(* One submission of a form                                                *)

SubmitInit ==
    /\ CoerceIdle
    /\ AdminInit
    /\ AdminSession
    /\ store = SubmitStore
    /\ next_id = 51

\* the steps up to and including the first submission that reaches the store
SubmitNext ==
    \/ store = SubmitStore /\ InitialLoad(TRUE, TRUE)
    \/ \E c \in SubmitCollections : store = SubmitStore /\ CollectionClicked(c, TRUE)
    \/ \E r \in 1..Len(table_rows) : store = SubmitStore /\ SelectRow(r)
    \/ \E bad \in BadLookups : store = SubmitStore /\ InsertClicked(bad)
    \/ \E bad \in BadLookups : store = SubmitStore /\ EditClicked(bad)
    \/ \E i \in 1..Len(dialog.widgets) :
          \E s \in SubmitTexts(dialog.widgets[i].k) :
              store = SubmitStore /\ EditInput(i, s)
    \/ \E i \in 1..Len(dialog.widgets) :
          \E j \in 1..Len(dialog.widgets[i].items) :
              store = SubmitStore /\ ChooseItem(i, j)
    \/ \E ok \in BOOLEAN : store = SubmitStore /\ SubmitInsert(ok, TRUE)
    \/ \E ok \in BOOLEAN : store = SubmitStore /\ SubmitEdit(ok, TRUE)
    \/ store = SubmitStore /\ CancelDialog

SpecSubmit == SubmitInit /\ [][SubmitNext]_vars

\* the store call of the submission a step makes
Submitted == calls'[1]

\* the trimmed text of the payment input of sub-field sub
SubText(sub) ==
    Strip(dialog.widgets[CHOOSE i \in 1..Len(dialog.widgets) :
                            dialog.widgets[i].k = PayPrefix \o sub].text)

PaySubs == <<K_amount, K_method, K_paidAt, K_status>>

HasPaymentInputs ==
    \E i \in 1..Len(dialog.widgets) : dialog.widgets[i].k = K_payment__amount

FilledSubs == {PaySubs[i] : i \in {j \in 1..Len(PaySubs) : SubText(PaySubs[j]) # <<>>}}

\* an integer as the float of the same value
AsFloat(v) ==
    IF v.t = "int" THEN VFloat(IF v.n < 0 THEN -1 ELSE 1, NatDigits(Abs(v.n)), 0) ELSE v

\* C7: the document a form with payment inputs submits has a payment object
\* with exactly the sub-fields whose trimmed input is non-empty, method, paidAt
\* and status as the trimmed text and a numeric amount as that number ("50" as
\* the integer 50); it has no payment key when the four inputs are empty
C7_PaymentReassembly ==
    [][(last_op' \in {"on_ok", "on_save"} /\ calls' # <<>> /\ HasPaymentInputs) =>
          IF FilledSubs = {} THEN ~DocHas(Submitted.arg, K_payment)
          ELSE /\ DocHas(Submitted.arg, K_payment)
               /\ LET p == DocGet(Submitted.arg, K_payment, VNull) IN
                  /\ p.t = "dict"
                  /\ Range(DocKeys(p.items)) = FilledSubs
                  /\ Len(p.items) = Cardinality(FilledSubs)
                  /\ \A sub \in FilledSubs \ {K_amount} :
                        DocGet(p.items, sub, VNull) = VStr(SubText(sub))
                  /\ (K_amount \in FilledSubs /\ PyFloat(SubText(K_amount)).ok) =>
                        /\ DocGet(p.items, K_amount, VNull).t \in {"int", "float"}
                        /\ AsFloat(DocGet(p.items, K_amount, VNull))
                              = PyFloat(SubText(K_amount)).val
                  /\ SubText(K_amount) = <<"5", "0">> =>
                        DocGet(p.items, K_amount, VNull) = VInt(50)]_vars

\* amount "50", method "cash", paidAt and status empty: {amount: 50, method: "cash"}
C7_Witness ==
    /\ last_op = "on_ok"
    /\ calls # <<>>
    /\ DocGet(calls[1].arg, K_payment, VNull)
          = VDict(<<Entry(K_amount, VInt(50)),
                    Entry(K_method, VStr(<<"c", "a", "s", "h">>))>>)

\* the collection a reference field points to
ClaimedTarget(k) ==
    CASE k = K_membershipLevelId -> "membershipLevels"
      [] k = K_memberId -> "members"
      [] k = K_facilityId -> "facilities"
      [] OTHER -> "bookings"

\* C8: for every selectable list of a submitted form, the placeholder entry
\* puts null under the field, and a real entry puts the _id of the target
\* document it stands for, not its label
C8_ReferenceResolution ==
    [][(last_op' \in {"on_ok", "on_save"} /\ calls' # <<>>) =>
          \A i \in 1..Len(dialog.widgets) :
             LET w == dialog.widgets[i]
                 target == ClaimedTarget(w.k)
                 sent == DocGet(Submitted.arg, w.k, VStr(<<>>))
             IN  w.w = "combo" =>
                   IF w.items[w.idx].label = ChooseLabel(target) THEN sent = VNull
                   ELSE IF w.idx > 1 /\ w.items[1].label = ChooseLabel(target)
                   THEN /\ w.idx - 1 <= Len(store[target])
                        /\ sent = DocGet(store[target][w.idx - 1], K_id, VNull)
                        /\ sent # VStr(w.items[w.idx].label)
                   ELSE TRUE]_vars

\* the second of two members with the same label was chosen
C8_Witness ==
    /\ last_op = "on_ok"
    /\ calls # <<>>
    /\ calls[1].coll = "bookings"
    /\ DocGet(calls[1].arg, K_memberId, VNull) = VOid(12)
    /\ DocGet(calls[1].arg, K_facilityId, VStr(<<>>)) = VNull

\* C9: a booking form submitted with the placeholder as member or facility
\* gives a warning and issues no store call
C9_UnselectedReferenceRejected ==
    [][(/\ last_op' \in {"on_ok", "on_save"}
        /\ dialog.coll = "bookings"
        /\ \E i \in 1..Len(dialog.widgets) :
              /\ dialog.widgets[i].k \in {K_memberId, K_facilityId}
              /\ dialog.widgets[i].w = "combo"
              /\ dialog.widgets[i].items[dialog.widgets[i].idx].label
                    = ChooseLabel(ClaimedTarget(dialog.widgets[i].k))) =>
          /\ calls' = <<>>
          /\ store' = store
          /\ \E j \in 1..Len(msgs') : msgs'[j].box = "warning"]_vars

----------------------------------------------------------------------------
(* Runs of submissions                                                     *)

FormInit ==
    /\ CoerceIdle
    /\ AdminInit
    /\ AdminSession
    /\ store = [EmptyStore EXCEPT !["membershipLevels"] = <<Level1>>]
    /\ next_id = 2

FormCollections == {"membershipLevels", "facilities"}

\* the store has assigned fewer than MaxInserts identifiers
MayInsert ==
    /\ next_id < 2 + MaxInserts
    /\ \A c \in CollectionNames : Len(store[c]) <= MaxInserts

FormNext ==
    \/ InitialLoad(TRUE, TRUE)
    \/ \E c \in FormCollections : CollectionClicked(c, TRUE)
    \/ \E r \in 1..Len(table_rows) : SelectRow(r)
    \/ InsertClicked({})
    \/ \E text \in JsonTexts, accepted, ok \in BOOLEAN :
          MayInsert /\ InsertJson(text, accepted, ok, TRUE)
    \/ EditClicked({})
    \/ \E i \in 1..Len(dialog.widgets) : \E s \in FormTexts : EditInput(i, s)
    \/ \E ok, loadOk \in BOOLEAN : MayInsert /\ SubmitInsert(ok, loadOk)
    \/ \E ok, loadOk \in BOOLEAN : SubmitEdit(ok, loadOk)
    \/ CancelDialog
    \/ \E confirmed, ok \in BOOLEAN : DeleteClicked(confirmed, ok, TRUE)

SpecForm == FormInit /\ [][FormNext]_vars

\* the identifiers of the stored documents of a collection, in order
Ids(st, c) == [i \in 1..Len(st[c]) |-> DocGet(st[c][i], K_id, VNull)]

\* C10: a document the insert form or the edit form submits has no _id; an
\* edit is an update addressed by the _id of the edited document and leaves
\* the identifier of every stored document as it was; an insert leaves the
\* stored documents' identifiers as they were and adds one the store assigns
C10_IdentifierUntouched ==
    [][last_op' \in {"on_ok", "on_save"} =>
          /\ \A i \in 1..Len(calls') :
                calls'[i].op \in {"insert_doc", "update_doc"} =>
                    ~DocHas(calls'[i].arg, K_id)
          /\ last_op' = "on_save" =>
                /\ \A c \in CollectionNames : Ids(store', c) = Ids(store, c)
                /\ calls' # <<>> =>
                      /\ Submitted.op = "update_doc"
                      /\ Submitted.ident = DocGet(dialog.doc, K_id, VNull)
          /\ last_op' = "on_ok" =>
                \A c \in CollectionNames :
                    \/ Ids(store', c) = Ids(store, c)
                    \/ Ids(store', c) = Append(Ids(store, c), VOid(next_id))]_vars

\* an edit changed the first membership level and left its identifier
C10_Witness ==
    /\ last_op = "on_save"
    /\ calls # <<>>
    /\ calls[1].ok
    /\ Len(store["membershipLevels"]) >= 1
    /\ store["membershipLevels"][1]
          = <<Entry(K_id, VOid(1)), Entry(K_name, VInt(5))>>

----------------------------------------------------------------------------
(* Outcomes of submissions against a store other sessions change           *)

K_password == <<"p", "a", "s", "s", "w", "o", "r", "d">>

MailA == <<"a", "@", "b">>

MailB == <<"c", "@", "d">>

\* the members of the club: their first names, passwords and e-mail addresses
Member1 ==
    <<Entry(K_id, VOid(11)), Entry(K_firstName, VStr(<<"A">>)),
      Entry(K_email, VStr(MailA))>>

Member2 ==
    <<Entry(K_id, VOid(12)), Entry(K_firstName, VStr(<<"B">>)),
      Entry(K_email, VStr(MailB))>>

\* what a user types into an input of the members forms
OutcomeTexts == {<<"B">>, MailA}

OutcomeInit ==
    /\ CoerceIdle
    /\ AdminInit
    /\ AdminSession
    /\ store = [EmptyStore EXCEPT !["members"] = Take(<<Member1, Member2>>, MaxTargets)]
    /\ next_id = 51

\* no form has written to the store yet: it holds initial members only and
\* has assigned fewer than MaxInserts identifiers
Unwritten ==
    /\ next_id < 51 + MaxInserts
    /\ Range(store["members"]) \subseteq {Member1, Member2}

OutcomeNext ==
    \/ InitialLoad(TRUE, TRUE)
    \/ CollectionClicked("members", TRUE)
    \/ \E r \in 1..Len(table_rows) : SelectRow(r)
    \/ InsertClicked({})
    \/ EditClicked({})
    \/ \E i \in 1..Len(dialog.widgets) : \E s \in OutcomeTexts : EditInput(i, s)
    \/ \E ok, loadOk \in BOOLEAN : Unwritten /\ SubmitInsert(ok, loadOk)
    \/ \E ok, loadOk \in BOOLEAN : Unwritten /\ SubmitEdit(ok, loadOk)
    \/ CancelDialog
    \/ \E confirmed, ok \in BOOLEAN : DeleteClicked(confirmed, ok, TRUE)
    \/ \E i \in 1..Len(store["members"]) : EnvDelete("members", i)

SpecOutcome == OutcomeInit /\ [][OutcomeNext]_vars

\* C11: when insert_doc raises on submit of the insert form, one critical box
\* "Insert failed" is shown, which for a DuplicateKeyError carries the wording
\* "Duplicate key error: " and for any other exception does not; the stored
\* documents, the open form, the cache and the table are as before and no
\* reload is issued; when update_doc raises on submit of the edit form, one
\* critical box "Update failed" is shown and store, form and view are as before
C11_SubmitFailureKeepsForm ==
    [][/\ last_op' \in {"on_ok", "on_save"}
       /\ calls' # <<>>
       /\ ~Submitted.ok
       => /\ Len(calls') = 1
          /\ store' = store
          /\ dialog' = dialog
          /\ dialog.kind # "none"
          /\ View' = View
          /\ Len(msgs') = 1
          /\ msgs'[1].box = "critical"
          /\ msgs'[1].title = (IF last_op' = "on_ok" THEN "Insert failed"
                               ELSE "Update failed")
          /\ (msgs'[1].text = "Duplicate key error: ")
                <=> (Submitted.err = "DuplicateKeyError")
          /\ Submitted.err = "DuplicateKeyError" =>
                /\ Submitted.op = "insert_doc"
                /\ \E i \in 1..Len(store[Submitted.coll]) :
                      email_key(store[Submitted.coll][i]) = email_key(Submitted.arg)]_vars

\* the insert form of members was submitted with the e-mail address of a
\* stored member and the store raised DuplicateKeyError
C11_Witness ==
    /\ last_op = "on_ok"
    /\ calls # <<>>
    /\ calls[1].err = "DuplicateKeyError"
    /\ email_key(calls[1].arg) = VStr(MailA)
    /\ dialog.kind = "insert"
    /\ Len(store["members"]) = MaxTargets

----------------------------------------------------------------------------
(* The login window and the member view (LoginWindow, ClientPage)          *)

K_checkIn == <<"c", "h", "e", "c", "k", "I", "n">>

K_checkOut == <<"c", "h", "e", "c", "k", "O", "u", "t">>

K_sessionStatus == <<"s", "e", "s", "s", "i", "o", "n", "S", "t", "a", "t", "u", "s">>

K_durationMinutes ==
    <<"d", "u", "r", "a", "t", "i", "o", "n", "M", "i", "n", "u", "t", "e", "s">>

T_pending == <<"p", "e", "n", "d", "i", "n", "g">>

T_cancelled == <<"c", "a", "n", "c", "e", "l", "l", "e", "d">>

T_sent == <<"s", "e", "n", "t">>

T_read == <<"r", "e", "a", "d">>

T_in_progress == <<"i", "n", "_", "p", "r", "o", "g", "r", "e", "s", "s">>

T_completed == <<"c", "o", "m", "p", "l", "e", "t", "e", "d">>

T_logout == <<"l", "o", "g", "o", "u", "t">>

T_booking_created == <<"b", "o", "o", "k", "i", "n", "g", "_", "c", "r", "e", "a", "t", "e", "d">>

T_booking_cancelled ==
    <<"b", "o", "o", "k", "i", "n", "g", "_", "c", "a", "n", "c", "e", "l", "l", "e", "d">>

T_checked_in == <<"c", "h", "e", "c", "k", "e", "d", "_", "i", "n">>

T_checked_out == <<"c", "h", "e", "c", "k", "e", "d", "_", "o", "u", "t">>

T_admin == <<"a", "d", "m", "i", "n">>

T_admin123 == <<"a", "d", "m", "i", "n", "1", "2", "3">>

\* a datetime.datetime, in whole seconds
VDate(n) == Val("date", n, 0, <<>>, <<>>)

\* a query {k: q} on one field: the stored value equals q or is an array
\* holding q; a missing field counts as null
field_matches(d, k, q) ==
    LET v == DocGet(d, k, VNull) IN
    \/ v = q
    \/ v.t = "list" /\ \E i \in 1..Len(v.items) : v.items[i] = q

\* self.member.get("_id")
member_id == DocGet(member, K_id, VNull)

\* a query for the bookings of every member
MutAllBookings(st, mid) == Take(st["bookings"], 500)

\* bookings.find({"memberId": member_id}).limit(500)
member_bookings(st, mid) ==
    Take(SelectSeq(st["bookings"], LAMBDA d : field_matches(d, K_memberId, mid)), 500)

\* the frame of the handlers of the login window and the member view
otherPages ==
    <<coerceVars, protoVars, started, current_collection, docs_cache, table_keys, count_label,
      search_input>>

\* the outcomes of the store calls of _load_bookings: both succeed, the lookup
\* of facility names raises, the query for the bookings raises
LoadOutcomes == {"ok", "facilities_error", "error"}

\* _load_bookings on the rows and the selection of the bookings table
load_bookings(rows, sel, found, ld) ==
    IF ld = "error" THEN [rows |-> rows, sel |-> sel]
    ELSE IF found = <<>> THEN [rows |-> <<>>, sel |-> 0]
    ELSE [rows |-> found, sel |-> populate_selection(sel, Len(found))]

\* the store calls of _load_bookings
load_bookings_calls(found, ld) ==
    <<Call("load_bookings", "find", "bookings", VNull, <<>>, ld # "error")>> \o
    (IF /\ ld # "error"
        /\ \E i \in 1..Len(found) : DocGet(found[i], K_facilityId, VNull) # VNull
     THEN <<Call("load_bookings", "find", "facilities", VNull, <<>>, ld = "ok")>>
     ELSE <<>>)

load_bookings_boxes(ld) == IF ld = "error" THEN <<Box("critical", "DB Error")>> ELSE <<>>

\* _load_bookings as the last step of a handler, on the store st
LoadBookings(st, mid, rows, sel, ld) ==
    \E found \in {member_bookings(st, mid)} :
    \E v \in {load_bookings(rows, sel, found, ld)} :
        /\ table_rows' = v.rows
        /\ selected' = v.sel

\* members.find_one({"firstName": name, "password": pw}): the first match
find_member(st, name, pw) ==
    SelectSeq(st["members"],
              LAMBDA d : /\ field_matches(d, K_firstName, VStr(name))
                         /\ field_matches(d, K_password, VStr(pw)))

\* LoginWindow._on_login: first and pw are the texts of the two inputs, ok is
\* FALSE when find_one raises, ld is the outcome of the member view's first
\* load; AdminPage(dbclient) takes no logout_callback, so the call for the
\* administrator raises TypeError out of the handler: the interpreter aborts
\* or reports it and goes on, and crash tells which
Login(first, pw, ok, ld, crash) ==
    /\ window = "login"
    /\ last_op' = "on_login"
    /\ \E name \in {Strip(first)} :
       IF name = <<>> \/ pw = <<>>
       THEN /\ msgs' = <<Box("warning", "Missing")>>
            /\ calls' = <<>>
            /\ UNCHANGED <<window, member, table_rows, selected>>
       ELSE IF Lower(name) = T_admin /\ pw = T_admin123
       THEN /\ msgs' = <<Box("unhandled", "TypeError")>>
            /\ calls' = <<>>
            /\ window' = IF crash THEN "none" ELSE "login"
            /\ UNCHANGED <<member, table_rows, selected>>
       ELSE IF ~ok
       THEN /\ msgs' = <<Box("critical", "DB error")>>
            /\ calls' = <<Call("on_login", "find_one", "members", VNull, <<>>, FALSE)>>
            /\ UNCHANGED <<window, member, table_rows, selected>>
       ELSE \E hits \in {find_member(store, name, pw)} :
            IF hits = <<>>
            THEN /\ msgs' = <<Box("warning", "Unauthorized")>>
                 /\ calls' = <<Call("on_login", "find_one", "members", VNull, <<>>, TRUE)>>
                 /\ UNCHANGED <<window, member, table_rows, selected>>
            ELSE /\ window' = "client"
                 /\ member' = hits[1]
                 /\ LoadBookings(store, DocGet(hits[1], K_id, VNull), <<>>, 0, ld)
                 /\ msgs' = load_bookings_boxes(ld)
                 /\ calls' = <<Call("on_login", "find_one", "members", VNull, <<>>, TRUE)>>
                             \o load_bookings_calls(
                                    member_bookings(store, DocGet(hits[1], K_id, VNull)), ld)
    /\ UNCHANGED <<otherPages, storeVars, dialog, clock>>

\* the Refresh button of the member view: _load_bookings
ClientRefresh(ld) ==
    /\ window = "client"
    /\ dialog.kind = "none"
    /\ last_op' = "load_bookings"
    /\ LoadBookings(store, member_id, table_rows, selected, ld)
    /\ msgs' = load_bookings_boxes(ld)
    /\ calls' = load_bookings_calls(member_bookings(store, member_id), ld)
    /\ UNCHANGED <<otherPages, storeVars, dialog, sessionVars>>

\* the member selects a row of the bookings table
ClientSelectRow(r) ==
    /\ window = "client"
    /\ dialog.kind = "none"
    /\ r \in 1..Len(table_rows)
    /\ selected # r
    /\ selected' = r
    /\ last_op' = "select"
    /\ msgs' = <<>>
    /\ calls' = <<>>
    /\ UNCHANGED <<otherPages, storeVars, table_rows, dialog, sessionVars>>

\* a notification of the member view; title and message, texts made of the
\* same data, are left out
notification(mid, type, now) ==
    <<Entry(K_memberId, mid), Entry(K_type, VStr(type)), Entry(K_sentAt, VDate(now)),
      Entry(K_status, VStr(T_sent))>>

\* a notification about a booking that names no member
MutNotificationOfNobody(mid, bid, type, now) ==
    <<Entry(K_bookingId, bid), Entry(K_type, VStr(type)), Entry(K_sentAt, VDate(now)),
      Entry(K_status, VStr(T_sent))>>

\* a notification about a booking
booking_notification(mid, bid, type, now) ==
    <<Entry(K_memberId, mid), Entry(K_bookingId, bid), Entry(K_type, VStr(type)),
      Entry(K_sentAt, VDate(now)), Entry(K_status, VStr(T_sent))>>

\* a failed notification that undoes what the handler wrote before it
MutNotifyRollsBack(st, nid, notif, notifOk) ==
    IF notifOk
    THEN [store |-> insert_doc(st, "notifications", notif, nid), next_id |-> nid + 1]
    ELSE [store |-> store, next_id |-> next_id]

\* try: insert_doc("notifications", notif) / except Exception: pass, on the
\* store st: the store and the identifier counter afterwards
notify(st, nid, notif, notifOk) ==
    IF notifOk
    THEN [store |-> insert_doc(st, "notifications", notif, nid), next_id |-> nid + 1]
    ELSE [store |-> st, next_id |-> nid]

notify_call(by, notif, notifOk) ==
    Call(by, "insert_doc", "notifications", VNull, notif, notifOk)

\* _on_logout_clicked: the logout notification, the callback that opens a new
\* login window, and close(); _open_new_login keeps the new window in a local
\* name only, and reopened tells whether it outlives the call
Logout(notifOk, reopened) ==
    /\ window = "client"
    /\ dialog.kind = "none"
    /\ last_op' = "on_logout_clicked"
    /\ \E notif \in {notification(member_id, T_logout, clock)} :
       \E after \in {notify(store, next_id, notif, notifOk)} :
          /\ store' = after.store
          /\ next_id' = after.next_id
          /\ calls' = <<notify_call("on_logout_clicked", notif, notifOk)>>
    /\ msgs' = <<>>
    /\ window' = IF reopened THEN "login" ELSE "none"
    /\ member' = <<>>
    /\ table_rows' = <<>>
    /\ selected' = 0
    /\ UNCHANGED <<otherPages, dialog, clock>>

ChooseFacilityLabel ==
    <<"-", "-", " ", "c", "h", "o", "o", "s", "e", " ", "f", "a", "c", "i", "l", "i", "t",
      "y", " ", "-", "-">>

ErrorFacilitiesLabel ==
    <<"E", "r", "r", "o", "r", " ", "l", "o", "a", "d", "i", "n", "g", " ", "f", "a", "c",
      "i", "l", "i", "t", "i", "e", "s">>

T_none == <<"n", "o", "n", "e">>

T_cash == <<"c", "a", "s", "h">>

T_credit_card == <<"c", "r", "e", "d", "i", "t", "_", "c", "a", "r", "d">>

T_bank_transfer ==
    <<"b", "a", "n", "k", "_", "t", "r", "a", "n", "s", "f", "e", "r">>

T_wallet == <<"w", "a", "l", "l", "e", "t">>

\* the entries of the facility list of the New Booking dialog
facility_items(docs, ok) ==
    IF ~ok THEN <<Item(ErrorFacilitiesLabel, VNull)>>
    ELSE <<Item(ChooseFacilityLabel, VNull)>> \o
         [i \in 1..Len(docs) |->
            Item(PyStr(IF Truthy(DocGet(docs[i], K_name, VNull))
                       THEN DocGet(docs[i], K_name, VNull)
                       ELSE DocGet(docs[i], K_id, VNull)),
                 DocGet(docs[i], K_id, VNull))]

\* the entries of the payment method list
method_items ==
    <<Item(T_none, VNull), Item(T_cash, VStr(T_cash)),
      Item(T_credit_card, VStr(T_credit_card)),
      Item(T_bank_transfer, VStr(T_bank_transfer)), Item(T_wallet, VStr(T_wallet))>>

\* the inputs of the New Booking dialog
booking_widgets(docs, ok) ==
    <<Combo(K_facilityId, facility_items(docs, ok), 1), LineEdit(K_startTime, <<>>),
      LineEdit(K_endTime, <<>>), Combo(K_method, method_items, 1),
      LineEdit(K_amount, <<>>)>>

BookingDialog(ws) == [kind |-> "booking", coll |-> "bookings", doc |-> <<>>, widgets |-> ws]

\* _on_new_booking_clicked: the New Booking dialog opens; ok is FALSE when the
\* lookup of the facilities raises
NewBookingClicked(ok) ==
    /\ window = "client"
    /\ dialog.kind = "none"
    /\ dialog' = BookingDialog(booking_widgets(find_docs(store, "facilities", 1000), ok))
    /\ last_op' = "new_booking_clicked"
    /\ msgs' = <<>>
    /\ calls' = <<Call("show_create_booking_dialog", "find", "facilities", VNull, <<>>, ok)>>
    /\ UNCHANGED <<otherPages, storeVars, table_rows, selected, sessionVars>>

\* coerce_number of the New Booking dialog, on a trimmed non-empty text
coerce_number(txt) ==
    ValueOr(IF HasChar(txt, ".") THEN PyFloat(txt) ELSE PyInt(txt), VStr(txt))

\* the payment object on_create assembles
create_payment(pm, pa_raw) ==
    (IF pm # VNull THEN <<Entry(K_method, pm)>> ELSE <<>>) \o
    (IF pa_raw # <<>> THEN <<Entry(K_amount, coerce_number(pa_raw))>> ELSE <<>>)

\* the booking on_create assembles
create_doc(mid, facility_id, start, end, payment) ==
    <<Entry(K_memberId, mid), Entry(K_facilityId, facility_id),
      Entry(K_startTime, VStr(start)), Entry(K_endTime, VStr(end)),
      Entry(K_status, VStr(T_pending))>> \o
    (IF payment # <<>> THEN <<Entry(K_payment, VDict(payment))>> ELSE <<>>)

\* the text of the input of field k of the open dialog, trimmed
input_text(k) == Strip(dialog.widgets[widget_at(dialog.widgets, k)].text)

\* on_create of the New Booking dialog: ok is FALSE when the insert of the
\* booking raises, notifOk when the insert of the notification raises
CreateBooking(ok, notifOk, ld) ==
    /\ window = "client"
    /\ dialog.kind = "booking"
    /\ last_op' = "on_create"
    /\ \E facility_id \in {current_data(dialog.widgets[1])} :
       \E doc \in {create_doc(member_id, facility_id, input_text(K_startTime),
                              input_text(K_endTime),
                              create_payment(current_data(dialog.widgets[4]),
                                             input_text(K_amount)))} :
       IF facility_id = VNull \/ input_text(K_startTime) = <<>>
                              \/ input_text(K_endTime) = <<>>
       THEN /\ msgs' = <<Box("warning", "Missing")>>
            /\ calls' = <<>>
            /\ UNCHANGED <<storeVars, dialog, table_rows, selected>>
       ELSE IF ~ok
       THEN /\ msgs' = <<Box("critical", "Insert failed")>>
            /\ calls' = <<Call("on_create", "insert_doc", "bookings", VNull, doc, FALSE)>>
            /\ UNCHANGED <<storeVars, dialog, table_rows, selected>>
       ELSE \E notif \in {booking_notification(member_id, VOid(next_id),
                                               T_booking_created, clock)} :
            \E after \in {notify(insert_doc(store, "bookings", doc, next_id),
                                 next_id + 1, notif, notifOk)} :
               /\ store' = after.store
               /\ next_id' = after.next_id
               /\ dialog' = NoDialog
               /\ LoadBookings(after.store, member_id, table_rows, selected, ld)
               /\ msgs' = <<Box("information", "Created")>> \o load_bookings_boxes(ld)
               /\ calls' = <<Call("on_create", "insert_doc", "bookings", VNull, doc, TRUE),
                             notify_call("on_create", notif, notifOk)>>
                           \o load_bookings_calls(
                                  member_bookings(after.store, member_id), ld)
    /\ UNCHANGED <<otherPages, sessionVars>>

\* _on_cancel_booking: confirmed is the answer to the confirmation box, ok is
\* FALSE when the update raises, notifOk when the insert of the notification
\* raises
CancelBooking(confirmed, ok, notifOk, ld) ==
    /\ window = "client"
    /\ dialog.kind = "none"
    /\ last_op' = "on_cancel_booking"
    /\ IF selected = 0
       THEN /\ msgs' = <<Box("warning", "No selection")>>
            /\ calls' = <<>>
            /\ UNCHANGED <<storeVars, table_rows, selected>>
       ELSE IF ~confirmed
       THEN /\ msgs' = <<Box("question", "Confirm cancel")>>
            /\ calls' = <<>>
            /\ UNCHANGED <<storeVars, table_rows, selected>>
       ELSE \E ident \in {DocGet(table_rows[selected], K_id, VNull)} :
            \E update \in {<<Entry(K_status, VStr(T_cancelled))>>} :
            IF ident = VNull
            THEN /\ msgs' = <<Box("question", "Confirm cancel"),
                              Box("critical", "Cancel failed")>>
                 /\ calls' = <<>>
                 /\ UNCHANGED <<storeVars, table_rows, selected>>
            ELSE IF ~ok
            THEN /\ msgs' = <<Box("question", "Confirm cancel"),
                              Box("critical", "Cancel failed")>>
                 /\ calls' = <<Call("on_cancel_booking", "update_doc", "bookings", ident,
                                    update, FALSE)>>
                 /\ UNCHANGED <<storeVars, table_rows, selected>>
            ELSE \E notif \in {booking_notification(member_id, ident,
                                                    T_booking_cancelled, clock)} :
                 \E after \in {notify(update_doc(store, "bookings", ident, update),
                                      next_id, notif, notifOk)} :
                    /\ store' = after.store
                    /\ next_id' = after.next_id
                    /\ LoadBookings(after.store, member_id, table_rows, selected, ld)
                    /\ msgs' = <<Box("question", "Confirm cancel"),
                                 modified_box("Cancelled", store, "bookings", ident,
                                              update)>>
                               \o load_bookings_boxes(ld)
                    /\ calls' = <<Call("on_cancel_booking", "update_doc", "bookings",
                                       ident, update, TRUE),
                                  notify_call("on_cancel_booking", notif, notifOk)>>
                                \o load_bookings_calls(
                                       member_bookings(after.store, member_id), ld)
    /\ UNCHANGED <<otherPages, dialog, sessionVars>>

\* the usage log _on_check_in_clicked inserts
usage_doc(mid, facility_id, now) ==
    <<Entry(K_memberId, mid), Entry(K_facilityId, facility_id),
      Entry(K_checkIn, VDate(now)), Entry(K_sessionStatus, VStr(T_in_progress))>>

\* _on_check_in_clicked
CheckIn(confirmed, ok, notifOk) ==
    /\ window = "client"
    /\ dialog.kind = "none"
    /\ last_op' = "on_check_in_clicked"
    /\ IF selected = 0
       THEN /\ msgs' = <<Box("warning", "No selection")>>
            /\ calls' = <<>>
            /\ UNCHANGED storeVars
       ELSE \E booking \in {table_rows[selected]} :
            \E doc \in {usage_doc(member_id, DocGet(booking, K_facilityId, VNull), clock)} :
            IF DocGet(booking, K_facilityId, VNull) = VNull
            THEN /\ msgs' = <<Box("warning", "Missing facility")>>
                 /\ calls' = <<>>
                 /\ UNCHANGED storeVars
            ELSE IF ~confirmed
            THEN /\ msgs' = <<Box("question", "Confirm check-in")>>
                 /\ calls' = <<>>
                 /\ UNCHANGED storeVars
            ELSE IF ~ok
            THEN /\ msgs' = <<Box("question", "Confirm check-in"),
                              Box("critical", "Insert failed")>>
                 /\ calls' = <<Call("on_check_in_clicked", "insert_doc", "usageLogs",
                                    VNull, doc, FALSE)>>
                 /\ UNCHANGED storeVars
            ELSE \E notif \in {booking_notification(member_id,
                                    DocGet(booking, K_id, VNull), T_checked_in, clock)} :
                 \E after \in {notify(insert_doc(store, "usageLogs", doc, next_id),
                                      next_id + 1, notif, notifOk)} :
                    /\ store' = after.store
                    /\ next_id' = after.next_id
                    /\ msgs' = <<Box("question", "Confirm check-in"),
                                 Box("information", "Checked in")>>
                    /\ calls' = <<Call("on_check_in_clicked", "insert_doc", "usageLogs",
                                       VNull, doc, TRUE),
                                  notify_call("on_check_in_clicked", notif, notifOk)>>
    /\ UNCHANGED <<otherPages, table_rows, selected, dialog, sessionVars>>

\* the place of a value in a descending sort: dates by their time, above
\* everything that is no date
sort_key(v) == IF v.t = "date" THEN v.n ELSE -1

\* a lookup of the open session that ignores the facility
MutOpenAnyFacility(st, mid, facility_id) ==
    LET open == SelectSeq(st["usageLogs"],
                    LAMBDA d : /\ field_matches(d, K_memberId, mid)
                               /\ field_matches(d, K_sessionStatus, VStr(T_in_progress)))
    IN  {open[i] : i \in {j \in 1..Len(open) :
                            \A m \in 1..Len(open) :
                                sort_key(DocGet(open[m], K_checkIn, VNull))
                                    <= sort_key(DocGet(open[j], K_checkIn, VNull))}}

\* usageLogs.find_one({memberId, facilityId, sessionStatus: "in_progress"},
\* sort=[("checkIn", -1)]): the open sessions with the latest checkIn, of
\* which the store returns one
open_sessions(st, mid, facility_id) ==
    LET open == SelectSeq(st["usageLogs"],
                    LAMBDA d : /\ field_matches(d, K_memberId, mid)
                               /\ field_matches(d, K_facilityId, facility_id)
                               /\ field_matches(d, K_sessionStatus, VStr(T_in_progress)))
    IN  {open[i] : i \in {j \in 1..Len(open) :
                            \A m \in 1..Len(open) :
                                sort_key(DocGet(open[m], K_checkIn, VNull))
                                    <= sort_key(DocGet(open[j], K_checkIn, VNull))}}

\* a duration that rounds down where Python rounds half to even
MutRoundDown(seconds) == seconds \div 60

\* int(round(delta.total_seconds() / 60.0)): Python rounds half to even
round_minutes(seconds) ==
    LET q == seconds \div 60
        r == seconds % 60
    IN  IF r < 30 THEN q
        ELSE IF r > 30 THEN q + 1
        ELSE IF q % 2 = 0 THEN q ELSE q + 1

\* the duration _on_check_out_clicked computes: none for a checkIn that is
\* neither a datetime nor the ISO text of one (no stored text is one here)
duration_minutes(checkin_time, now) ==
    IF checkin_time.t = "date" THEN VInt(round_minutes(now - checkin_time.n)) ELSE VNull

\* the update _on_check_out_clicked sends
checkout_update(duration, now) ==
    <<Entry(K_checkOut, VDate(now)), Entry(K_sessionStatus, VStr(T_completed))>> \o
    (IF duration # VNull THEN <<Entry(K_durationMinutes, duration)>> ELSE <<>>)

\* _on_check_out_clicked: findOk is FALSE when find_one raises
CheckOut(findOk, confirmed, ok, notifOk) ==
    /\ window = "client"
    /\ dialog.kind = "none"
    /\ last_op' = "on_check_out_clicked"
    /\ IF selected = 0
       THEN /\ msgs' = <<Box("warning", "No selection")>>
            /\ calls' = <<>>
            /\ UNCHANGED storeVars
       ELSE \E booking \in {table_rows[selected]} :
            \E facility_id \in {DocGet(booking, K_facilityId, VNull)} :
            \E found \in {Call("on_check_out_clicked", "find_one", "usageLogs", VNull,
                               <<>>, findOk)} :
            IF facility_id = VNull
            THEN /\ msgs' = <<Box("warning", "Missing facility")>>
                 /\ calls' = <<>>
                 /\ UNCHANGED storeVars
            ELSE IF ~findOk
            THEN /\ msgs' = <<Box("critical", "DB error")>>
                 /\ calls' = <<found>>
                 /\ UNCHANGED storeVars
            ELSE IF open_sessions(store, member_id, facility_id) = {}
            THEN /\ msgs' = <<Box("information", "No open session")>>
                 /\ calls' = <<found>>
                 /\ UNCHANGED storeVars
            ELSE IF ~confirmed
            THEN /\ msgs' = <<Box("question", "Confirm check-out")>>
                 /\ calls' = <<found>>
                 /\ UNCHANGED storeVars
            ELSE \E doc \in open_sessions(store, member_id, facility_id) :
                 \E ident \in {DocGet(doc, K_id, VNull)} :
                 \E update \in {checkout_update(
                                   duration_minutes(DocGet(doc, K_checkIn, VNull), clock),
                                   clock)} :
                 IF ~ok
                 THEN /\ msgs' = <<Box("question", "Confirm check-out"),
                                   Box("critical", "Update failed")>>
                      /\ calls' = <<found, Call("on_check_out_clicked", "update_doc",
                                                "usageLogs", ident, update, FALSE)>>
                      /\ UNCHANGED storeVars
                 ELSE \E notif \in {booking_notification(member_id,
                                        DocGet(booking, K_id, VNull), T_checked_out,
                                        clock)} :
                      \E after \in {notify(update_doc(store, "usageLogs", ident, update),
                                           next_id, notif, notifOk)} :
                         /\ store' = after.store
                         /\ next_id' = after.next_id
                         /\ msgs' = <<Box("question", "Confirm check-out"),
                                      Box("information", "Checked out")>>
                         /\ calls' = <<found, Call("on_check_out_clicked", "update_doc",
                                                   "usageLogs", ident, update, TRUE),
                                       notify_call("on_check_out_clicked", notif, notifOk)>>
    /\ UNCHANGED <<otherPages, table_rows, selected, dialog, sessionVars>>

RECURSIVE sort_desc(_, _)
\* docs sorted by field k, latest first
sort_desc(docs, k) ==
    IF docs = <<>> THEN <<>>
    ELSE LET i == CHOOSE j \in 1..Len(docs) :
                    /\ \A m \in 1..Len(docs) :
                          sort_key(DocGet(docs[m], k, VNull))
                              <= sort_key(DocGet(docs[j], k, VNull))
                    /\ \A m \in 1..(j - 1) :
                          sort_key(DocGet(docs[m], k, VNull))
                              < sort_key(DocGet(docs[j], k, VNull))
         IN  <<docs[i]>> \o
             sort_desc(SubSeq(docs, 1, i - 1) \o SubSeq(docs, i + 1, Len(docs)), k)

\* notifications.find({"memberId": member_id}).sort("sentAt", -1).limit(200)
member_notifications(st, mid) ==
    Take(sort_desc(SelectSeq(st["notifications"],
                             LAMBDA d : field_matches(d, K_memberId, mid)),
                   K_sentAt), 200)

\* the list of the Notifications dialog: one entry per notification, its
\* document as data; idx is the selected entry, 0 for none
NotificationsDialog(docs) ==
    [kind |-> "notifications", coll |-> "notifications", doc |-> <<>>,
     widgets |-> <<[k |-> K_id, w |-> "list", items |-> docs, idx |-> 0,
                    text |-> <<>>]>>]

\* _on_show_notifications: the Notifications dialog opens
ShowNotifications(ok) ==
    /\ window = "client"
    /\ dialog.kind = "none"
    /\ last_op' = "on_show_notifications"
    /\ calls' = <<Call("on_show_notifications", "find", "notifications", VNull, <<>>, ok)>>
    /\ IF ok
       THEN /\ dialog' = NotificationsDialog(member_notifications(store, member_id))
            /\ msgs' = <<>>
       ELSE /\ msgs' = <<Box("critical", "DB Error")>>
            /\ UNCHANGED dialog
    /\ UNCHANGED <<otherPages, storeVars, table_rows, selected, sessionVars>>

\* the member selects an entry of the notifications list
SelectNotification(j) ==
    /\ dialog.kind = "notifications"
    /\ j \in 1..Len(dialog.widgets[1].items)
    /\ dialog.widgets[1].idx # j
    /\ dialog' = [dialog EXCEPT !.widgets[1].idx = j]
    /\ last_op' = "select"
    /\ msgs' = <<>>
    /\ calls' = <<>>
    /\ UNCHANGED <<otherPages, storeVars, table_rows, selected, sessionVars>>

\* on_mark_read of the Notifications dialog: ok is FALSE when update_doc
\* raises, refreshOk when the query that refills the list raises
MarkRead(ok, refreshOk) ==
    /\ dialog.kind = "notifications"
    /\ last_op' = "on_mark_read"
    /\ IF dialog.widgets[1].idx = 0
       THEN /\ msgs' = <<Box("information", "No selection")>>
            /\ calls' = <<>>
            /\ UNCHANGED <<store, dialog>>
       ELSE \E ident \in {DocGet(dialog.widgets[1].items[dialog.widgets[1].idx],
                                 K_id, VNull)} :
            \E update \in {<<Entry(K_status, VStr(T_read))>>} :
            \E marked \in {IF Truthy(ident)
                           THEN <<Call("on_mark_read", "update_doc", "notifications",
                                       ident, update, ok)>>
                           ELSE <<>>} :
            IF marked # <<>> /\ ~ok
            THEN /\ msgs' = <<Box("critical", "Update failed")>>
                 /\ calls' = marked
                 /\ UNCHANGED <<store, dialog>>
            ELSE /\ store' = IF marked = <<>> THEN store
                             ELSE update_doc(store, "notifications", ident, update)
                 /\ calls' = marked \o <<Call("on_mark_read", "find", "notifications",
                                              VNull, <<>>, refreshOk)>>
                 /\ IF refreshOk
                    THEN /\ msgs' = <<Box("information", "Updated")>>
                         /\ dialog' = NotificationsDialog(
                                          member_notifications(store', member_id))
                    ELSE /\ msgs' = <<Box("information", "Updated"),
                                      Box("critical", "Update failed")>>
                         /\ UNCHANGED dialog
    /\ UNCHANGED <<otherPages, next_id, table_rows, selected, sessionVars>>

\* on_close of the Notifications dialog
CloseNotifications ==
    /\ dialog.kind = "notifications"
    /\ dialog' = NoDialog
    /\ last_op' = "on_close"
    /\ msgs' = <<>>
    /\ calls' = <<>>
    /\ UNCHANGED <<otherPages, storeVars, table_rows, selected, sessionVars>>

\* time passes
Tick(d) ==
    /\ clock' = clock + d
    /\ last_op' = "env"
    /\ msgs' = <<>>
    /\ calls' = <<>>
    /\ UNCHANGED <<otherPages, storeVars, table_rows, selected, dialog, window, member>>

----------------------------------------------------------------------------
(* A member's session                                                      *)

\* identifiers the store assigns during one session
MaxWrites == 1

Alice ==
    <<Entry(K_id, VOid(11)), Entry(K_firstName, VStr(<<"A">>)),
      Entry(K_password, VStr(<<"p">>))>>

Bob ==
    <<Entry(K_id, VOid(12)), Entry(K_firstName, VStr(<<"B">>)),
      Entry(K_password, VStr(<<"q">>))>>

\* a booking of member mid at facility fid
Booking(n, mid, fid) ==
    <<Entry(K_id, VOid(n)), Entry(K_memberId, VOid(mid)), Entry(K_facilityId, fid),
      Entry(K_startTime, VStr(<<"t">>)), Entry(K_status, VStr(T_pending))>>

\* an open session of member mid at facility 21, checked in at time t
OpenSession(n, mid, t) ==
    <<Entry(K_id, VOid(n)), Entry(K_memberId, VOid(mid)), Entry(K_facilityId, VOid(21)),
      Entry(K_checkIn, t), Entry(K_sessionStatus, VStr(T_in_progress))>>

\* the club when the member logs in: two members, a facility, a booking and
\* an open session of each member, a notification of the other member
MemberStore ==
    [c \in CollectionNames |->
        CASE c = "members" -> <<Alice, Bob>>
          [] c = "facilities" -> <<Facility1>>
          [] c = "bookings" -> <<Booking(32, 12, VOid(21)), Booking(31, 11, VOid(21))>>
          [] c = "usageLogs" ->
                <<OpenSession(45, 12, VDate(0)), OpenSession(46, 11, VDate(0))>>
          [] c = "notifications" ->
                <<booking_notification(VOid(12), VOid(32), T_booking_created, 0)>>
          [] OTHER -> <<>>]

\* the login window is open
LoginInit ==
    /\ CoerceIdle
    /\ AdminInit
    /\ window = "login"
    /\ member = <<>>
    /\ clock = 0
    /\ ProtoIdle

MemberInit ==
    /\ LoginInit
    /\ store = MemberStore
    /\ next_id = 51

\* the store has assigned fewer than MaxWrites identifiers
MayWrite == next_id < 51 + MaxWrites

\* what the member types into the inputs of the start and the end time
BookingTexts == {<<"t">>}

MemberNext ==
    \/ \E ld \in LoadOutcomes : Login(<<"A">>, <<"p">>, TRUE, ld, FALSE)
    \/ \E ld \in LoadOutcomes : ClientRefresh(ld)
    \/ \E r \in 1..Len(table_rows) : ClientSelectRow(r)
    \/ \E ok \in BOOLEAN : NewBookingClicked(ok)
    \/ \E i \in 2..3, s \in BookingTexts : dialog.kind = "booking" /\ EditInput(i, s)
    \/ \E j \in 1..2 : dialog.kind = "booking" /\ ChooseItem(1, j)
    \/ dialog.kind = "booking" /\ CancelDialog
    \/ \E ok, notifOk \in BOOLEAN : MayWrite /\ CreateBooking(ok, notifOk, "ok")
    \/ \E confirmed, ok, notifOk \in BOOLEAN, ld \in LoadOutcomes :
          MayWrite /\ CancelBooking(confirmed, ok, notifOk, ld)
    \/ \E confirmed, ok, notifOk \in BOOLEAN : MayWrite /\ CheckIn(confirmed, ok, notifOk)
    \/ \E findOk, confirmed, ok, notifOk \in BOOLEAN :
          MayWrite /\ CheckOut(findOk, confirmed, ok, notifOk)
    \/ \E ok \in BOOLEAN : ShowNotifications(ok)
    \/ \E j \in 1..Len(store["notifications"]) : SelectNotification(j)
    \/ \E ok, refreshOk \in BOOLEAN : MarkRead(ok, refreshOk)
    \/ CloseNotifications
    \/ \E notifOk, reopened \in BOOLEAN : MayWrite /\ Logout(notifOk, reopened)
    \/ \E i \in 1..Len(store["bookings"]) :
          /\ window = "client"
          /\ DocGet(store["bookings"][i], K_memberId, VNull) = member_id
          /\ EnvDelete("bookings", i)

SpecMember == MemberInit /\ [][MemberNext]_vars

\* the notifications of member mid in the store st
NotificationsOf(st, mid) ==
    {i \in 1..Len(st["notifications"]) :
        DocGet(st["notifications"][i], K_memberId, VNull) = mid}

\* the stored documents with identifier ident in collection c of st
Holding(st, c, ident) ==
    {i \in 1..Len(st[c]) : DocGet(st[c][i], K_id, VNull) = ident}

\* d2 is d1 with field k set to v and nothing else changed
SetsOnly(d1, d2, k, v) ==
    /\ DocGet(d2, k, VNull) = v
    /\ DocPop(d2, k) = DocPop(d1, k)

\* C12: a confirmed cancel whose update does not raise, of a selected booking
\* that is still stored, leaves the bookings in place with the status of that
\* booking "cancelled" and nothing else changed, reports "Cancelled", and
\* adds exactly one notification of the member, or none when the insert of
\* the notification raises
C12_SoftCancelNotifies ==
    [][/\ last_op' = "on_cancel_booking"
       /\ calls' # <<>>
       /\ Submitted.ok
       /\ Holding(store, "bookings", Submitted.ident) # {}
       => /\ Len(store'["bookings"]) = Len(store["bookings"])
          /\ \A i \in 1..Len(store["bookings"]) :
                IF i \in Holding(store, "bookings", Submitted.ident)
                THEN SetsOnly(store["bookings"][i], store'["bookings"][i], K_status,
                              VStr(T_cancelled))
                ELSE store'["bookings"][i] = store["bookings"][i]
          /\ \A c \in CollectionNames \ {"bookings", "notifications"} :
                store'[c] = store[c]
          /\ Cardinality(NotificationsOf(store', member_id))
                = Cardinality(NotificationsOf(store, member_id))
                  + (IF calls'[2].ok THEN 1 ELSE 0)
          /\ Len(store'["notifications"])
                = Len(store["notifications"]) + (IF calls'[2].ok THEN 1 ELSE 0)
          /\ \E j \in 1..Len(msgs') :
                msgs'[j].box = "information" /\ msgs'[j].title = "Cancelled"
          /\ \A j \in 1..Len(msgs') : msgs'[j].title # "Cancel failed"]_vars

\* the member cancelled a stored booking while the notification could not be
\* written: the booking is cancelled and no notification of the member exists
C12_Witness ==
    /\ last_op = "on_cancel_booking"
    /\ Len(calls) >= 2
    /\ calls[1].ok
    /\ ~calls[2].ok
    /\ \E i \in 1..Len(store["bookings"]) :
          /\ DocGet(store["bookings"][i], K_id, VNull) = calls[1].ident
          /\ DocGet(store["bookings"][i], K_status, VNull) = VStr(T_cancelled)
    /\ NotificationsOf(store, member_id) = {}

\* the handlers of the member view that write a notification after their own
\* write
NotifyingHandlers ==
    {"on_create", "on_cancel_booking", "on_check_in_clicked", "on_check_out_clicked"}

\* the writes a handler issued: its own and the one of the notification
WritesOf(cs) == SelectSeq(cs, LAMBDA c : c.op \in {"insert_doc", "update_doc"})

\* the boxes of a kind among those a handler showed
BoxesOf(ms, kind) == {j \in 1..Len(ms) : ms[j].box = kind}

\* what a write that did not raise leaves in its collection
Written(st, c) ==
    IF c.op = "insert_doc"
    THEN Append(st[c.coll], <<Entry(K_id, VOid(next_id))>> \o c.arg)
    ELSE [i \in 1..Len(st[c.coll]) |->
            IF i \in Holding(st, c.coll, c.ident) THEN SetAll(st[c.coll][i], c.arg)
            ELSE st[c.coll][i]]

\* C13: in on_create, _on_cancel_booking, _on_check_in_clicked and
\* _on_check_out_clicked a notification insert that raises leaves the
\* handler's own write in the store, shows the handler's success box and no
\* failure box of the handler; when the handler's own write raises, the store
\* is unchanged, no notification insert is issued and one critical box is
\* shown; _on_logout_clicked closes the member view without any box whether
\* or not its notification insert raises
C13_NotificationFailureSwallowed ==
    [][/\ last_op' \in NotifyingHandlers /\ WritesOf(calls') # <<>> =>
             LET own == WritesOf(calls')[1] IN
             /\ own.coll # "notifications"
             /\ own.ok =>
                   /\ Len(WritesOf(calls')) = 2
                   /\ WritesOf(calls')[2].coll = "notifications"
                   /\ store'[own.coll] = Written(store, own)
                   /\ ~WritesOf(calls')[2].ok =>
                         store'["notifications"] = store["notifications"]
                   /\ Cardinality(BoxesOf(msgs', "information")) = 1
                   /\ \A j \in BoxesOf(msgs', "critical") : msgs'[j].title = "DB Error"
             /\ ~own.ok =>
                   /\ Len(WritesOf(calls')) = 1
                   /\ store' = store
                   /\ Cardinality(BoxesOf(msgs', "critical")) = 1
                   /\ BoxesOf(msgs', "information") = {}
       /\ last_op' = "on_logout_clicked" =>
             /\ window' # "client"
             /\ msgs' = <<>>
             /\ Len(calls') = 1
             /\ ~calls'[1].ok => store' = store]_vars

\* a booking was created while its notification could not be written
C13_Witness ==
    /\ last_op = "on_create"
    /\ Len(calls) >= 2
    /\ calls[1].ok
    /\ ~calls[2].ok
    /\ Len(store["bookings"]) = 3
    /\ Len(store["notifications"]) = 1
    /\ msgs # <<>>
    /\ msgs[1] = Box("information", "Created")

\* the field names of a partial document
Named(update) == {update[i].k : i \in 1..Len(update)}

\* d2 is d1 with the fields of update replaced and nothing else changed
Merged(d1, d2, update) ==
    /\ \A i \in 1..Len(update) : DocGet(d2, update[i].k, VNull) = update[i].v
    /\ SelectSeq(d2, LAMBDA en : en.k \notin Named(update))
          = SelectSeq(d1, LAMBDA en : en.k \notin Named(update))
    /\ \A i \in 1..Len(d2) : d2[i].k \in Named(update) \/ DocHas(d1, d2[i].k)

\* the documents of collection c that differ between the store before and
\* after a step
Changed(c) == {i \in 1..Len(store[c]) : store'[c][i] # store[c][i]}

\* C14: an update_doc that returns leaves as many documents in its collection
\* as before; the one document with the given identifier has the fields of the
\* partial document replaced and its other fields unchanged, every other
\* document is unchanged, and the modified count shown is the number of
\* changed documents, 0 or 1
C14_UpdateMerges ==
    [][\A n \in 1..Len(calls') :
          calls'[n].op = "update_doc" /\ calls'[n].ok =>
             LET c == calls'[n] IN
             /\ Len(store'[c.coll]) = Len(store[c.coll])
             /\ \A i \in 1..Len(store[c.coll]) :
                   IF i \in Holding(store, c.coll, c.ident)
                   THEN Merged(store[c.coll][i], store'[c.coll][i], c.arg)
                   ELSE store'[c.coll][i] = store[c.coll][i]
             /\ Cardinality(Changed(c.coll)) <= 1
             /\ Cardinality(Holding(store, c.coll, c.ident)) <= 1
             /\ last_op' = "on_cancel_booking" =>
                   \E j \in 1..Len(msgs') :
                      /\ msgs'[j].title = "Cancelled"
                      /\ msgs'[j].text = modified_text(Cardinality(Changed(c.coll)))]_vars

\* a check-out updated the member's open session and left the other fields of
\* it and the other member's session as they were
C14_Witness ==
    /\ last_op = "on_check_out_clicked"
    /\ Len(calls) >= 2
    /\ calls[2].op = "update_doc"
    /\ calls[2].ok
    /\ Len(store["usageLogs"]) = 2
    /\ store["usageLogs"][1] = OpenSession(45, 12, VDate(0))
    /\ DocGet(store["usageLogs"][2], K_sessionStatus, VNull) = VStr(T_completed)
    /\ DocGet(store["usageLogs"][2], K_checkIn, VNull) = VDate(0)

----------------------------------------------------------------------------
(* The prototype window (src/main.py): a GUI thread and one DBWorker       *)
(* The worker's pc is "idle" (not running), "started" (start() was called, *)
(* run() has not read its task yet), "chosen" (run() has read the action), *)
(* "op" (a store call is in flight).  The GUI thread is "idle" (in the     *)
(* event loop), "waiting" (inside worker.wait()) or "find" (inside the     *)
(* find_docs of on_apply_filter).                                          *)

MaxPending == 1

K__id_str == <<"_", "i", "d", "_", "s", "t", "r">>

\* a task handed to DBWorker.set_task
Task(action, coll, ident, doc) ==
    [action |-> action, coll |-> coll, ident |-> ident, doc |-> doc]

\* the keys of the task dictionary a handler builds for an action
task_keys(action) ==
    CASE action = "list_docs" -> {"action", "collection"}
      [] action = "insert" -> {"action", "collection", "doc"}
      [] action = "delete" -> {"action", "collection", "_id"}
      [] action = "update" -> {"action", "collection", "_id", "update"}
      [] OTHER -> {"action"}

\* a signal of the worker: resultReady(action, payload) or error(msg)
Signal(kind, action, docs, n) == [kind |-> kind, action |-> action, docs |-> docs, n |-> n]

\* value.isoformat() of the instant n
IsoText(n) == <<"T">> \o IntText(n)

RECURSIVE convert_bson_for_ui(_)
\* MainWindow._convert_bson_for_ui: dictionaries and lists are walked, a date
\* becomes its ISO text and every other value its str()
convert_bson_for_ui(v) ==
    CASE v.t = "dict" ->
            VDict([i \in 1..Len(v.items) |->
                    Entry(v.items[i].k, convert_bson_for_ui(v.items[i].v))])
      [] v.t = "list" -> VList([i \in 1..Len(v.items) |-> convert_bson_for_ui(v.items[i])])
      [] v.t = "date" -> VStr(IsoText(v.n))
      [] OTHER -> VStr(PyStr(v))

\* the document the JSON editor of on_edit_clicked gives back when its text
\* is accepted as pre-filled: the selected document without _id, converted
edit_text_doc(doc) == convert_bson_for_ui(VDict(DocPop(doc, K_id))).items

\* the documents a list_docs or an apply-filter shows: each with _id gets
\* _id_str, the text of its _id
with_id_str(docs) ==
    [i \in 1..Len(docs) |->
        IF DocHas(docs[i], K_id)
        THEN DictSet(docs[i], K__id_str, VStr(PyStr(DocGet(docs[i], K_id, VNull))))
        ELSE docs[i]]

\* seed_sample_data inserts only into an empty membershipLevels, facilities
\* or members collection
Seeded(st) == st["membershipLevels"] # <<>> /\ st["facilities"] # <<>> /\ st["members"] # <<>>

\* the frame of the handlers of the prototype window
protoFrame ==
    <<coerceVars, started, docs_cache, table_keys, count_label, search_input, dialog,
      member, clock>>

\* MainWindow.run_db_task(task): set_task, then wait() while the worker is
\* running, then start(); the GUI thread stays inside wait() until run() ends
RunDbTask(task) ==
    /\ worker' = [worker EXCEPT !.task = task,
                                !.pc = IF worker.pc = "idle" THEN "started" ELSE @]
    /\ foreground' = IF worker.pc = "idle" THEN "idle" ELSE "waiting"

\* worker.wait() returns when run() has ended, and run_db_task calls start()
WaitReturns ==
    /\ window = "proto"
    /\ foreground = "waiting"
    /\ worker.pc = "idle"
    /\ worker' = [worker EXCEPT !.pc = "started"]
    /\ foreground' = "idle"
    /\ last_op' = "run_db_task"
    /\ msgs' = <<>>
    /\ calls' = <<>>
    /\ UNCHANGED <<protoFrame, storeVars, window, current_collection, table_rows, selected,
                   pending>>

\* MainWindow.populate_table
PopulateTable(docs) ==
    /\ table_rows' = docs
    /\ selected' = populate_selection(selected, Len(docs))

\* on_collection_selected(current, previous): the user clicks another item of
\* the collection list
ProtoSelect(c) ==
    /\ window = "proto"
    /\ foreground = "idle"
    /\ c # current_collection
    /\ current_collection' = c
    /\ RunDbTask(Task("list_docs", c, VNull, <<>>))
    /\ last_op' = "on_collection_selected"
    /\ msgs' = <<>>
    /\ calls' = <<>>
    /\ UNCHANGED <<protoFrame, storeVars, window, table_rows, selected, pending>>

\* on_refresh_clicked
ProtoRefresh ==
    /\ window = "proto"
    /\ foreground = "idle"
    /\ IF current_collection # "None"
       THEN RunDbTask(Task("list_docs", current_collection, VNull, <<>>))
       ELSE UNCHANGED <<worker, foreground>>
    /\ last_op' = "on_refresh_clicked"
    /\ msgs' = <<>>
    /\ calls' = <<>>
    /\ UNCHANGED <<protoFrame, storeVars, window, current_collection, table_rows, selected,
                   pending>>

\* the Seed button: run_db_task({"action": "ensure"})
ProtoSeed ==
    /\ window = "proto"
    /\ foreground = "idle"
    /\ RunDbTask(Task("ensure", "None", VNull, <<>>))
    /\ last_op' = "seed"
    /\ msgs' = <<>>
    /\ calls' = <<>>
    /\ UNCHANGED <<protoFrame, storeVars, window, current_collection, table_rows, selected,
                   pending>>

\* the selected row of the table
ProtoSelectRow(r) ==
    /\ window = "proto"
    /\ foreground = "idle"
    /\ r \in 1..Len(table_rows)
    /\ selected' = r
    /\ last_op' = "select"
    /\ msgs' = <<>>
    /\ calls' = <<>>
    /\ UNCHANGED <<protoFrame, protoVars, storeVars, window, current_collection, table_rows>>

\* on_new_clicked: the JSON editor opens with "{}"; accepted tells whether
\* the user presses OK on that text
ProtoNew(accepted) ==
    /\ window = "proto"
    /\ foreground = "idle"
    /\ last_op' = "on_new_clicked"
    /\ calls' = <<>>
    /\ IF current_collection = "None"
       THEN /\ msgs' = <<Box("warning", "No collection")>>
            /\ UNCHANGED <<worker, foreground>>
       ELSE /\ msgs' = <<>>
            /\ IF accepted
               THEN RunDbTask(Task("insert", current_collection, VNull, <<>>))
               ELSE UNCHANGED <<worker, foreground>>
    /\ UNCHANGED <<protoFrame, storeVars, window, current_collection, table_rows, selected,
                   pending>>

\* on_edit_clicked: the JSON editor opens with the selected document without
\* its _id; accepted tells whether the user presses OK on that text
ProtoEdit(accepted) ==
    /\ window = "proto"
    /\ foreground = "idle"
    /\ last_op' = "on_edit_clicked"
    /\ calls' = <<>>
    /\ IF selected = 0
       THEN /\ msgs' = <<Box("warning", "Select")>>
            /\ UNCHANGED <<worker, foreground>>
       ELSE /\ msgs' = <<>>
            /\ IF accepted
               THEN RunDbTask(Task("update", current_collection,
                                   DocGet(table_rows[selected], K_id, VNull),
                                   edit_text_doc(table_rows[selected])))
               ELSE UNCHANGED <<worker, foreground>>
    /\ UNCHANGED <<protoFrame, storeVars, window, current_collection, table_rows, selected,
                   pending>>

\* on_delete_clicked
ProtoDelete(confirmed) ==
    /\ window = "proto"
    /\ foreground = "idle"
    /\ last_op' = "on_delete_clicked"
    /\ calls' = <<>>
    /\ IF selected = 0
       THEN /\ msgs' = <<Box("warning", "Select")>>
            /\ UNCHANGED <<worker, foreground>>
       ELSE /\ msgs' = <<Box("question", "Confirm delete")>>
            /\ IF confirmed
               THEN RunDbTask(Task("delete", current_collection,
                                   DocGet(table_rows[selected], K_id, VNull), <<>>))
               ELSE UNCHANGED <<worker, foreground>>
    /\ UNCHANGED <<protoFrame, storeVars, window, current_collection, table_rows, selected,
                   pending>>

\* on_apply_filter up to its store call: the filter text is "{}" (the initial
\* text of the input) when valid and no JSON otherwise; find_docs is called
\* on the GUI thread, whatever the worker is doing
ApplyFilterBegin(valid) ==
    /\ window = "proto"
    /\ foreground = "idle"
    /\ last_op' = "on_apply_filter"
    /\ calls' = <<>>
    /\ IF current_collection = "None"
       THEN msgs' = <<>> /\ UNCHANGED foreground
       ELSE IF ~valid
       THEN msgs' = <<Box("warning", "Filter JSON")>> /\ UNCHANGED foreground
       ELSE msgs' = <<>> /\ foreground' = "find"
    /\ UNCHANGED <<protoFrame, storeVars, window, current_collection, table_rows, selected,
                   worker, pending>>

\* on_apply_filter from the return of find_docs: the table is populated; when
\* find_docs raises nothing catches it, and the interpreter aborts or reports
\* the exception and goes on (crash tells which)
ApplyFilterEnd(ok, crash) ==
    /\ window = "proto"
    /\ foreground = "find"
    /\ foreground' = "idle"
    /\ last_op' = "on_apply_filter"
    /\ calls' = <<Call("on_apply_filter", "find_docs", current_collection, VNull, <<>>, ok)>>
    /\ IF ok
       THEN /\ PopulateTable(with_id_str(find_docs(store, current_collection, 200)))
            /\ msgs' = <<>>
            /\ UNCHANGED window
       ELSE /\ msgs' = <<Box("unhandled", "Exception")>>
            /\ window' = IF crash THEN "none" ELSE "proto"
            /\ UNCHANGED <<table_rows, selected>>
    /\ UNCHANGED <<protoFrame, storeVars, current_collection, worker, pending>>

\* DBWorker.run up to action = self._task.get("action")
WorkerRun ==
    /\ window = "proto"
    /\ worker.pc = "started"
    /\ worker' = [worker EXCEPT !.pc = "chosen", !.action = worker.task.action]
    /\ last_op' = "run"
    /\ msgs' = <<>>
    /\ calls' = <<>>
    /\ UNCHANGED <<protoFrame, storeVars, window, current_collection, table_rows, selected,
                   foreground, pending>>

\* DBWorker.run from the branch of its action to the store call: the
\* arguments are read from self._task as it is now; a key the task in place
\* does not have raises KeyError, which run reports as "DB error"
WorkerCall ==
    /\ window = "proto"
    /\ worker.pc = "chosen"
    /\ IF task_keys(worker.action) \subseteq task_keys(worker.task.action)
       THEN /\ worker' = [worker EXCEPT !.pc = "op",
                                        !.op = [worker.task EXCEPT !.action = worker.action]]
            /\ UNCHANGED pending
       ELSE /\ worker' = [worker EXCEPT !.pc = "idle"]
            /\ pending' = Append(pending, Signal("error", worker.action, <<>>, 0))
    /\ last_op' = "run"
    /\ msgs' = <<>>
    /\ calls' = <<>>
    /\ UNCHANGED <<protoFrame, storeVars, window, current_collection, table_rows, selected,
                   foreground>>

\* the sample documents of seed_sample_data, with the fields the forms and
\* the member view read
T_Basic == <<"B", "a", "s", "i", "c">>

SeedLevels ==
    <<<<Entry(K_name, VStr(T_Basic))>>,
      <<Entry(K_name, VStr(<<"P", "r", "e", "m", "i", "u", "m">>))>>>>

SeedFacilities ==
    <<<<Entry(K_name, VStr(<<"G", "y", "m", " ", "A">>)), Entry(K_type, VStr(<<"g", "y", "m">>)),
        Entry(K_status, VStr(<<"a", "v", "a", "i", "l", "a", "b", "l", "e">>)),
        Entry(K_maintenanceNote, VStr(<<>>))>>,
      <<Entry(K_name, VStr(<<"P", "o", "o", "l", " ", "1">>)), Entry(K_type, VStr(<<"p", "o", "o", "l">>)),
        Entry(K_status, VStr(<<"m", "a", "i", "n", "t", "e", "n", "a", "n", "c", "e">>)),
        Entry(K_maintenanceNote, VStr(<<"C", "l", "e", "a", "n", "i", "n", "g">>))>>>>

SeedMember(level_id) ==
    <<Entry(K_firstName, VStr(<<"H", "e", "s", "h", "a", "m">>)),
      Entry(K_lastName, VStr(<<"E", "l", " ", "A", "f", "a", "n", "d", "i">>)),
      Entry(K_email, VStr(<<"h", "e", "s", "h", "a", "m", "@", "e", "x", "a", "m", "p", "l", "e", ".", "c", "o", "m">>)),
      Entry(K_membershipLevelId, level_id),
      Entry(K_status, VStr(<<"a", "c", "t", "i", "v", "e">>))>>

\* membershipLevels.find_one({"name": "Basic"}): the first level of that
\* name, <<>> for None
find_basic(st) ==
    LET ls == SelectSeq(st["membershipLevels"],
                        LAMBDA d : DocGet(d, K_name, VNull) = VStr(T_Basic))
    IN  IF ls = <<>> THEN <<>> ELSE Head(ls)

\* insert_many(docs) with the identifiers new_id, new_id + 1
insert_two(st, coll, docs, new_id) ==
    insert_doc(insert_doc(st, coll, docs[1], new_id), coll, docs[2], new_id + 1)

\* seed_sample_data: two levels when membershipLevels is empty, two
\* facilities when facilities is empty, one member of the level Basic when
\* members is empty; lvl["_id"] raises TypeError when find_one gave None,
\* after the inserts before it
seed_sample_data(st, new_id) ==
    LET s1 == IF st["membershipLevels"] = <<>>
              THEN insert_two(st, "membershipLevels", SeedLevels, new_id) ELSE st
        n1 == IF st["membershipLevels"] = <<>> THEN new_id + 2 ELSE new_id
        s2 == IF s1["facilities"] = <<>>
              THEN insert_two(s1, "facilities", SeedFacilities, n1) ELSE s1
        n2 == IF s1["facilities"] = <<>> THEN n1 + 2 ELSE n1
        lvl == find_basic(s2)
    IN  IF s2["members"] # <<>>
        THEN [ok |-> TRUE, store |-> s2, next_id |-> n2]
        ELSE IF lvl = <<>>
        THEN [ok |-> FALSE, store |-> s2, next_id |-> n2]
        ELSE [ok |-> TRUE,
              store |-> insert_doc(s2, "members",
                                   SeedMember(DocGet(lvl, K_id, VNull)), n2),
              next_id |-> n2 + 1]

\* the store after the call of the worker's operation op returned
worker_store(st, op, new_id) ==
    CASE op.action = "insert" -> insert_doc(st, op.coll, op.doc, new_id)
      [] op.action = "delete" -> delete_doc(st, op.coll, op.ident)
      [] op.action = "update" -> update_doc(st, op.coll, op.ident, op.doc)
      [] op.action = "ensure" -> seed_sample_data(st, new_id).store
      [] OTHER -> st

\* the next identifier the store assigns after the call of op
worker_next_id(st, op, new_id) ==
    CASE op.action = "insert" -> new_id + 1
      [] op.action = "ensure" -> seed_sample_data(st, new_id).next_id
      [] OTHER -> new_id

\* the signal run emits after the call of op returned
worker_signal(st, op) ==
    CASE op.action = "list_docs" ->
            Signal("result", "list_docs", with_id_str(find_docs(st, op.coll, 200)), 0)
      [] op.action = "delete" ->
            Signal("result", "delete", <<>>,
                   IF delete_doc(st, op.coll, op.ident) = st THEN 0 ELSE 1)
      [] op.action = "update" ->
            Signal("result", "update", <<>>, modified_count(st, op.coll, op.ident, op.doc))
      [] op.action = "ensure" /\ ~seed_sample_data(st, 0).ok ->
            Signal("error", "ensure", <<>>, 0)
      [] OTHER -> Signal("result", op.action, <<>>, 0)

\* DBWorker.run from the return of the store call: the result or the error is
\* emitted and run ends
WorkerDone(ok) ==
    /\ window = "proto"
    /\ worker.pc = "op"
    /\ worker' = [worker EXCEPT !.pc = "idle"]
    /\ last_op' = "run"
    /\ msgs' = <<>>
    /\ calls' = <<Call("run", worker.op.action, worker.op.coll, worker.op.ident,
                       worker.op.doc, ok)>>
    /\ IF ok
       THEN /\ store' = worker_store(store, worker.op, next_id)
            /\ next_id' = worker_next_id(store, worker.op, next_id)
            /\ pending' = Append(pending, worker_signal(store, worker.op))
       ELSE /\ pending' = Append(pending, Signal("error", worker.op.action, <<>>, 0))
            /\ UNCHANGED storeVars
    /\ UNCHANGED <<protoFrame, window, current_collection, table_rows, selected, foreground>>

\* the box on_worker_result shows for a signal
result_boxes(sig) ==
    CASE sig.kind = "error" -> <<Box("critical", "DB Error")>>
      [] sig.action = "insert" -> <<Box("information", "Inserted")>>
      [] sig.action = "delete" ->
            <<[box |-> "information", title |-> "Deleted",
               text |-> IF sig.n = 0 THEN "Deleted: 0" ELSE "Deleted: 1"]>>
      [] sig.action = "update" ->
            <<[box |-> "information", title |-> "Updated", text |-> modified_text(sig.n)]>>
      [] OTHER -> <<>>

\* on_worker_result and on_worker_error: the GUI thread handles the oldest
\* queued signal
Deliver ==
    /\ window = "proto"
    /\ foreground = "idle"
    /\ pending # <<>>
    /\ pending' = Tail(pending)
    /\ last_op' = "on_worker_result"
    /\ calls' = <<>>
    /\ \E sig \in {Head(pending)} :
         /\ msgs' = result_boxes(sig)
         /\ CASE sig.kind = "error" ->
                    UNCHANGED <<worker, foreground, current_collection, table_rows, selected>>
              [] sig.kind # "error" /\ sig.action = "ensure" ->
                    IF current_collection # COLLECTIONS[1]
                    THEN /\ current_collection' = COLLECTIONS[1]
                         /\ RunDbTask(Task("list_docs", COLLECTIONS[1], VNull, <<>>))
                         /\ UNCHANGED <<table_rows, selected>>
                    ELSE UNCHANGED <<worker, foreground, current_collection, table_rows,
                                     selected>>
              [] sig.kind # "error" /\ sig.action = "list_docs" ->
                    /\ PopulateTable(sig.docs)
                    /\ UNCHANGED <<worker, foreground, current_collection>>
              [] OTHER ->
                    /\ IF current_collection # "None"
                       THEN RunDbTask(Task("list_docs", current_collection, VNull, <<>>))
                       ELSE UNCHANGED <<worker, foreground>>
                    /\ UNCHANGED <<current_collection, table_rows, selected>>
    /\ UNCHANGED <<protoFrame, storeVars, window>>

Level0 == <<Entry(K_id, VOid(1)), Entry(K_name, VStr(<<"B">>))>>

\* the club the prototype window opens on
ProtoStore ==
    [c \in CollectionNames |->
        CASE c = "membershipLevels" -> <<Level0>>
          [] c = "members" -> <<Alice>>
          [] c = "facilities" -> <<Facility1>>
          [] c = "bookings" -> <<Booking1>>
          [] OTHER -> <<>>]

\* MainWindow.__init__: run_db_task({"action": "ensure"})
ProtoInit ==
    /\ CoerceIdle
    /\ AdminInit
    /\ window = "proto"
    /\ member = <<>>
    /\ clock = 0
    /\ store = ProtoStore
    /\ next_id = 51
    /\ worker = [pc |-> "started", task |-> Task("ensure", "None", VNull, <<>>),
                 action |-> "none", op |-> NoTask]
    /\ foreground = "idle"
    /\ pending = <<>>

\* fewer than MaxPending signals wait for the GUI thread
Responsive == Len(pending) < MaxPending

\* no operation of this window has changed the store yet
Pristine == store = ProtoStore /\ next_id = 51

ProtoNext ==
    \/ Responsive /\ ProtoSelect("bookings")
    \/ Responsive /\ ProtoRefresh
    \/ Responsive /\ ProtoSeed
    \/ \E r \in 1..MaxDocs : ProtoSelectRow(r)
    \/ \E accepted \in BOOLEAN : Responsive /\ Pristine /\ ProtoNew(accepted)
    \/ \E accepted \in BOOLEAN : Responsive /\ Pristine /\ ProtoEdit(accepted)
    \/ \E confirmed \in BOOLEAN :
         Responsive /\ Pristine /\ current_collection = "bookings" /\ ProtoDelete(confirmed)
    \/ \E valid \in BOOLEAN : ApplyFilterBegin(valid)
    \/ \E ok, crash \in BOOLEAN : ApplyFilterEnd(ok, crash)
    \/ WaitReturns
    \/ WorkerRun
    \/ WorkerCall
    \/ \E ok \in BOOLEAN : WorkerDone(ok)
    \/ Deliver

SpecProto == ProtoInit /\ [][ProtoNext]_vars

\* the store calls in flight
InFlight ==
    (IF worker.pc = "op" THEN 1 ELSE 0) + (IF foreground = "find" THEN 1 ELSE 0)

\* C15: in every reachable state of the browsing and editing flow at most one
\* database operation is in flight, on the worker thread or on the GUI thread
C15_OneOperationInFlight == InFlight <= 1

\* C16: a store call that raises inside a handler is caught by the handler:
\* no store failure leaves a handler as an unhandled exception
C16_StoreFailuresCaught ==
    \A i \in 1..Len(calls) :
        ~calls[i].ok => \A j \in 1..Len(msgs) : msgs[j].box # "unhandled"

\* the collection coll of st holds a document with the identifier ident
Exists(st, coll, ident) ==
    \E i \in 1..Len(st[coll]) : DocGet(st[coll][i], K_id, VNull) = ident

\* C17: when delete or edit-save of the admin browser is executed on a
\* document that is no longer in the store, the user is shown no success
\* (information) box, and the collection is reloaded
C17_VanishedIsNotFound ==
    [][/\ last_op' \in {"delete_clicked", "on_save"}
       /\ calls' # <<>>
       /\ calls'[1].op \in {"delete_doc", "update_doc"}
       /\ calls'[1].ok
       /\ ~Exists(store, calls'[1].coll, calls'[1].ident)
       => /\ \A j \in 1..Len(msgs') : msgs'[j].box # "information"
          /\ Len(calls') = 2
          /\ calls'[2].op = "find_docs"]_vars

----------------------------------------------------------------------------
(* Logging in                                                              *)

\* what is typed into the first-name input
LoginNames ==
    {<<>>, <<" ">>, <<"A">>, <<" ", "A">>, <<"a">>, <<"B">>, T_admin,
     <<"A", "d", "m", "i", "n">>}

\* what is typed into the password input
LoginSecrets == {<<>>, <<"p">>, <<"q">>, T_admin123}

LoginNext ==
    \/ \E first \in LoginNames, pw \in LoginSecrets, ok, crash \in BOOLEAN :
       \E ld \in LoadOutcomes : Login(first, pw, ok, ld, crash)
    \/ \E ld \in LoadOutcomes : ClientRefresh(ld)
    \/ \E r \in 1..MaxDocs : ClientSelectRow(r)
    \/ \E notifOk, reopened \in BOOLEAN : MayWrite /\ Logout(notifOk, reopened)
    \/ \E i \in 1..MaxDocs : window = "login" /\ EnvDelete("members", i)

SpecLogin == MemberInit /\ [][LoginNext]_vars

\* the stored members whose firstName and password are name and pw
Matching(st, name, pw) ==
    {d \in Range(st["members"]) :
        /\ DocGet(d, K_firstName, VNull) = VStr(name)
        /\ DocGet(d, K_password, VNull) = VStr(pw)}

\* C18: a login whose store query does not fail has exactly one of three
\* outcomes (the name is the text of the first input without surrounding
\* white space): an empty name or secret is rejected without a store call;
\* the name admin in any letter case with the secret admin123 opens the admin
\* view; otherwise a member whose firstName and password equal name and secret
\* becomes the logged-in member of the member view; otherwise the login is
\* rejected as unauthorized and the login window stays open
C18_LoginDispatch ==
    [][\A first \in LoginNames, pw \in LoginSecrets, crash \in BOOLEAN, ld \in LoadOutcomes :
         Login(first, pw, TRUE, ld, crash) =>
            LET name == Strip(first) IN
            IF name = <<>> \/ pw = <<>>
            THEN window' = "login" /\ calls' = <<>> /\ member' = <<>>
            ELSE IF Lower(name) = T_admin /\ pw = T_admin123
            THEN window' = "admin"
            ELSE IF Matching(store, name, pw) # {}
            THEN window' = "client" /\ member' \in Matching(store, name, pw)
            ELSE /\ window' = "login"
                 /\ member' = <<>>
                 /\ msgs' = <<Box("warning", "Unauthorized")>>]_vars

----------------------------------------------------------------------------
(* Whose documents the member view shows and writes                        *)

\* the documents of collection c that a step adds, changes or removes: the
\* versions after the step and the versions before it
Touched(c) ==
    (Range(store'[c]) \ Range(store[c])) \cup (Range(store[c]) \ Range(store'[c]))

\* C19: in the member view every booking shown has the memberId of the
\* logged-in member, and every document a handler of the view creates or
\* modifies is a booking, a usage log or a notification with that memberId;
\* no handler creates or modifies a document of another member
C19_OwnDocumentsOnly ==
    [][/\ window' = "client" =>
            \A i \in 1..Len(table_rows') :
                DocGet(table_rows'[i], K_memberId, VNull) = DocGet(member', K_id, VNull)
       /\ last_op' # "env" =>
            \A c \in CollectionNames : \A d \in Touched(c) :
                /\ c \in {"bookings", "usageLogs", "notifications"}
                /\ member # <<>>
                /\ DocGet(d, K_memberId, VNull) = member_id]_vars

\* the member has created a booking: the view lists two bookings of the
\* member while the store also holds the booking of the other member
C19_Witness ==
    /\ window = "client"
    /\ last_op = "on_create"
    /\ Len(table_rows) = 2
    /\ Len(store["bookings"]) = 3
    /\ store["bookings"][1] = Booking(32, 12, VOid(21))
    /\ DocGet(store["bookings"][3], K_memberId, VNull) = VOid(11)

----------------------------------------------------------------------------
(* The duration of a session                                               *)

\* the clock runs second by second up to MaxClock seconds
MaxClock == 120

SessionNext ==
    \/ \E ld \in LoadOutcomes : Login(<<"A">>, <<"p">>, TRUE, ld, FALSE)
    \/ \E r \in 1..MaxDocs : ClientSelectRow(r)
    \/ \E confirmed, ok \in BOOLEAN : CheckOut(TRUE, confirmed, ok, TRUE)
    \/ clock < MaxClock /\ Tick(1)
    \/ clock <= MaxClock /\ Tick(95 * 60)

SpecSession == MemberInit /\ [][SessionNext]_vars

\* the usage logs a step changes: position, version before, version after
Closed ==
    {i \in 1..Len(store["usageLogs"]) :
        /\ Len(store'["usageLogs"]) = Len(store["usageLogs"])
        /\ store'["usageLogs"][i] # store["usageLogs"][i]}

\* C20: a check-out stores the instant of the check-out and, for a session
\* checked in s whole seconds earlier, a durationMinutes d with
\* |d * 60 - s| <= 30: d is s / 60 rounded to the nearest minute, 95 for
\* s = 95 * 60, and not negative for s >= 0
C20_DurationRounded ==
    [][last_op' = "on_check_out_clicked" =>
         \A i \in Closed :
            LET before == store["usageLogs"][i]
                after == store'["usageLogs"][i]
                s == clock - DocGet(before, K_checkIn, VNull).n
                d == DocGet(after, K_durationMinutes, VNull)
            IN  /\ DocGet(after, K_checkOut, VNull) = VDate(clock)
                /\ DocGet(before, K_checkIn, VNull).t = "date" =>
                     /\ d.t = "int"
                     /\ Abs(d.n * 60 - s) <= 30
                     /\ s >= 0 => d.n >= 0
                     /\ s = 95 * 60 => d.n = 95]_vars

\* the member checked out 95 minutes and 30 seconds after the check-in, and
\* 96 minutes were stored: the half minute went to the even neighbour
C20_Witness ==
    /\ last_op = "on_check_out_clicked"
    /\ clock = 95 * 60 + 30
    /\ \E i \in 1..Len(store["usageLogs"]) :
         /\ DocGet(store["usageLogs"][i], K_checkIn, VNull) = VDate(0)
         /\ DocGet(store["usageLogs"][i], K_checkOut, VNull) = VDate(95 * 60 + 30)
         /\ DocGet(store["usageLogs"][i], K_durationMinutes, VNull) = VInt(96)

----------------------------------------------------------------------------
(* Display coercion: flatten_for_cell at its call sites                    *)
(* cpc is "cell" after a table cell was rendered (max_len 120, the         *)
(* default) and "detail" after a value of the details panel was rendered   *)
(* (max_len 1000); shown is the value and raw the text it was given.       *)

\* the numbers of elements of the lists rendered: around the length at
\* which "[1, 1, ..., 1]" has 120 characters
FlatLengths == {0, 1, 39, 40, 41, 42}

Ones(n) == VList([i \in 1..n |-> VInt(1)])

Xs(n) == VStr([i \in 1..n |-> "x"])

\* the values rendered: scalars, long texts, lists and nested documents whose
\* serialized forms have about 120 and about 1000 characters
FlatValues ==
    ScalarValues
    \cup {Xs(n) : n \in {119, 120, 121, 1001}}
    \cup {Ones(n) : n \in FlatLengths}
    \cup {VDict(<<Entry(K_tags, Ones(n))>>) : n \in FlatLengths}
    \cup {VDict(<<Entry(K_id, VOid(n)), Entry(K_amount, VNull)>>) : n \in 0..MaxInt}
    \cup {VList(<<Xs(n), VBool(TRUE)>>) : n \in {109, 110, 111, 989, 990, 991}}
    \cup {VDict(<<Entry(K_notes, Xs(n))>>) : n \in {107, 108, 109, 987, 988, 989}}

FlattenInit ==
    /\ CoerceInit
    /\ last_op = "init"

\* _populate_table: cell_text = flatten_for_cell(val)
FlattenCell(v) ==
    /\ cpc = "start"
    /\ cpc' = "cell"
    /\ shown' = v
    /\ raw' = flatten_for_cell(v, 120)
    /\ UNCHANGED <<coerced, storeVars, adminVars, obsVars, sessionVars, protoVars>>

\* _show_details: flatten_for_cell(v, max_len=1000)
FlattenDetail(v) ==
    /\ cpc = "start"
    /\ cpc' = "detail"
    /\ shown' = v
    /\ raw' = flatten_for_cell(v, 1000)
    /\ UNCHANGED <<coerced, storeVars, adminVars, obsVars, sessionVars, protoVars>>

FlattenNext ==
    \/ \E v \in FlatValues : FlattenCell(v)
    \/ \E v \in FlatValues : FlattenDetail(v)

SpecFlatten == FlattenInit /\ [][FlattenNext]_vars

Ellipsis == <<".", ".", ".">>

\* C21: the text of a rendered value is empty for null; for a nested document
\* or list it is the serialized form when that has at most max_len characters
\* and otherwise has exactly max_len characters, the first max_len - 3 of the
\* serialized form followed by "..."; for any other value it is the value's
\* string form in full
C21_DisplayCoercion ==
    cpc \in {"cell", "detail"} =>
        LET max_len == IF cpc = "cell" THEN 120 ELSE 1000
            s == JsonDumps(shown)
        IN  IF shown.t = "null" THEN raw = <<>>
            ELSE IF shown.t \in {"dict", "list"}
            THEN IF Len(s) <= max_len THEN raw = s
                 ELSE /\ Len(raw) = max_len
                      /\ SubSeq(raw, max_len - 2, max_len) = Ellipsis
                      /\ SubSeq(raw, 1, max_len - 3) = SubSeq(s, 1, max_len - 3)
            ELSE raw = PyStr(shown) /\ (shown.t = "str" => raw = shown.s)

\* a list whose serialized form has 123 characters was rendered in a table
\* cell with 120 characters
C21_Witness ==
    /\ cpc = "cell"
    /\ shown = Ones(41)
    /\ Len(JsonDumps(shown)) = 123
    /\ Len(raw) = 120
    /\ raw[117] = ","
    /\ raw[118] = "."

----------------------------------------------------------------------------
(* The admin browser as a whole: browsing, searching, selecting and        *)
(* writing, with loads that may fail and another session that deletes      *)

AdminStore ==
    [EmptyStore EXCEPT !["membershipLevels"] = <<LevelA, LevelB>>,
                       !["members"] = <<Member1, Member2>>]

WholeInit ==
    /\ CoerceIdle
    /\ AdminInit
    /\ AdminSession
    /\ store = AdminStore
    /\ next_id = 51

\* the store is as it was at the start
Untouched == store = AdminStore /\ next_id = 51

\* the admin has not written yet: the store holds documents of the start
\* only, all of them or all but one
Writable ==
    /\ next_id = 51
    /\ \A c \in BrowsedCollections :
          /\ Range(store[c]) \subseteq Range(AdminStore[c])
          /\ Len(store[c]) + 1 >= Len(AdminStore[c])
    /\ Len(store["membershipLevels"]) + Len(store["members"]) >= 3

WholeNext ==
    \/ \E listOk, loadOk \in BOOLEAN : InitialLoad(listOk, loadOk)
    \/ \E c \in BrowsedCollections, ok \in BOOLEAN : CollectionClicked(c, ok)
    \/ \E ok \in BOOLEAN : RefreshClicked(ok)
    \/ \E text \in {<<>>, <<"c">>}, ok \in BOOLEAN : SearchClicked(text, ok)
    \/ \E r \in 1..MaxDocs : SelectRow(r)
    \/ InsertClicked({})
    \/ EditClicked({})
    \/ dialog.kind # "none" /\ EditInput(1, <<"B">>)
    \/ \E ok, loadOk \in BOOLEAN : Writable /\ SubmitInsert(ok, loadOk)
    \/ \E ok, loadOk \in BOOLEAN : Writable /\ SubmitEdit(ok, loadOk)
    \/ CancelDialog
    \/ \E confirmed, ok, loadOk \in BOOLEAN : Writable /\ DeleteClicked(confirmed, ok, loadOk)
    \/ \E c \in BrowsedCollections : \E i \in 1..MaxDocs : Untouched /\ EnvDelete(c, i)

SpecWhole == WholeInit /\ [][WholeNext]_vars

\* C22: every row of the admin table, full or filtered, holds a whole
\* document of the cache; the edit form opens on the document of the selected
\* row, a delete is sent for that document, and the form saves to the
\* document it was opened on
C22_SelectionYieldsCachedDocument ==
    [][/\ \A r \in 1..Len(table_rows') : table_rows'[r] \in Range(docs_cache')
       /\ last_op' = "select" => selected' \in 1..Len(table_rows)
       /\ last_op' = "edit_clicked" /\ dialog'.kind = "edit" =>
            /\ selected # 0
            /\ dialog'.doc = table_rows[selected]
            /\ dialog'.coll = current_collection
       /\ last_op' = "delete_clicked" /\ calls' # <<>> =>
            /\ selected # 0
            /\ calls'[1].ident = DocGet(table_rows[selected], K_id, VNull)
       /\ last_op' = "on_save" /\ calls' # <<>> =>
            calls'[1].ident = DocGet(dialog.doc, K_id, VNull)]_vars

\* the edit form is open on the document of the selected row of a filtered
\* table that shows fewer documents than the cache holds
C22_Witness ==
    /\ last_op = "edit_clicked"
    /\ dialog.kind = "edit"
    /\ count_label.kind = "filtered"
    /\ Len(table_rows) < Len(docs_cache)
    /\ selected # 0
    /\ dialog.doc = table_rows[selected]
    /\ dialog.doc # docs_cache[selected]
----------------------------------------------------------------------------
(* The form builder over every collection                                  *)

BLevel ==
    <<Entry(K_id, VOid(1)), Entry(K_name, VStr(<<"G">>)),
      Entry(K_description, VStr(<<"d">>))>>

BMember ==
    <<Entry(K_id, VOid(11)), Entry(K_firstName, VStr(<<"A">>)),
      Entry(K_membershipLevelId, VOid(1)), Entry(K_status, VStr(<<"a">>)),
      Entry(K_tags, VList(<<VStr(<<"t">>)>>))>>

BFacility ==
    <<Entry(K_id, VOid(21)), Entry(K_name, VStr(<<"F">>)),
      Entry(K_type, VStr(<<"g">>)), Entry(K_maintenanceNote, VStr(<<>>))>>

BBookingPaid ==
    <<Entry(K_id, VOid(31)), Entry(K_memberId, VOid(11)),
      Entry(K_facilityId, VOid(21)), Entry(K_startTime, VStr(<<"9">>)),
      Entry(K_payment, VDict(<<Entry(K_amount, VInt(5)),
                               Entry(K_method, VStr(<<"c">>))>>))>>

\* a booking whose payment is null
BBookingUnpaid ==
    <<Entry(K_id, VOid(32)), Entry(K_memberId, VOid(11)),
      Entry(K_facilityId, VOid(21)), Entry(K_startTime, VStr(<<"9">>)),
      Entry(K_payment, VNull)>>

BUsage ==
    <<Entry(K_id, VOid(41)), Entry(K_memberId, VOid(11)),
      Entry(K_facilityId, VOid(21)), Entry(K_checkIn, VStr(<<"9">>))>>

BNotification ==
    <<Entry(K_id, VOid(51)), Entry(K_memberId, VOid(11)),
      Entry(K_bookingId, VOid(31)), Entry(K_message, VStr(<<"m">>)),
      Entry(K_sentAt, VStr(<<"9">>))>>

BuilderStore ==
    [c \in CollectionNames |->
        CASE c = "membershipLevels" -> <<BLevel>>
          [] c = "members" -> <<BMember>>
          [] c = "facilities" -> <<BFacility>>
          [] c = "bookings" -> <<BBookingPaid, BBookingUnpaid>>
          [] c = "usageLogs" -> <<BUsage>>
          [] OTHER -> <<BNotification>>]

BuilderInit ==
    /\ CoerceIdle
    /\ AdminInit
    /\ AdminSession
    /\ store = BuilderStore
    /\ next_id = 61

\* browsing every collection, opening either form, and one save
BuilderNext ==
    \/ InitialLoad(TRUE, TRUE)
    \/ \E c \in CollectionNames : CollectionClicked(c, TRUE)
    \/ \E r \in 1..MaxDocs : SelectRow(r)
    \/ InsertClicked({})
    \/ EditClicked({})
    \/ \E j \in 1..MaxDocs : ChooseItem(1, j)
    \/ \E ok \in BOOLEAN : store = BuilderStore /\ SubmitEdit(ok, TRUE)
    \/ CancelDialog

SpecBuilder == BuilderInit /\ [][BuilderNext]_vars

\* the reference fields the priority order names
ClaimedReference(coll, f) ==
    \/ coll = "members" /\ f = K_membershipLevelId
    \/ coll \in {"bookings", "usageLogs"} /\ f \in {K_memberId, K_facilityId}
    \/ coll = "notifications" /\ f \in {K_memberId, K_bookingId}

\* the kind of input the priority order gives a field
ClaimedKind(coll, f) ==
    IF ClaimedReference(coll, f) THEN "reference"
    ELSE IF coll = "bookings" /\ f = K_payment THEN "composite"
    ELSE IF f \in long_fields \/ (EndsWith(f, "s") /\ f \notin {K_status, K_type})
    THEN "multi"
    ELSE IF time_named(f) THEN "timestamp"
    ELSE "plain"

\* the kind of input a form holds for a field
BuiltKind(ws, f) ==
    IF widget_at(ws, f) = 0
    THEN IF /\ f = K_payment
            /\ \A k \in {K_payment__amount, K_payment__method, K_payment__paidAt,
                         K_payment__status} : widget_at(ws, k) > 0
         THEN "composite"
         ELSE "absent"
    ELSE LET w == ws[widget_at(ws, f)]
         IN  IF w.w = "combo"
             THEN IF w.items # <<>> /\ w.items[1].data = VNull THEN "reference"
                  ELSE "list"
             ELSE IF w.w = "plain" THEN "multi"
             ELSE IF w.hint = "iso" THEN "timestamp"
             ELSE "plain"

\* the fields an open form was built from
form_fields ==
    IF dialog.kind = "edit" THEN edit_fields(dialog.doc) ELSE sample_fields

\* C23: in an open insert or edit form, every field has the input the
\* priority order gives its collection and name: a selectable list with the
\* unselected entry for a reference field, else the four sub-inputs for
\* bookings.payment, else a multi-line input for a long-text or plural name,
\* else a line edit with the ISO hint for a name with a time word, else a
\* plain line edit
C23_WidgetPriority ==
    dialog.kind \in {"insert", "edit"} =>
        \A i \in 1..Len(form_fields) :
            BuiltKind(dialog.widgets, form_fields[i])
                = ClaimedKind(dialog.coll, form_fields[i])

\* the kind of input the insert form builds for a field of a collection
InsertKind(coll, f) == BuiltKind(insert_widgets(coll, <<f>>, store, {}), f)

\* C24: an edit form that opens holds, for every field of its document, the
\* kind of input the insert form builds for that collection and field; and
\* the update it submits holds an identifier or null under every field the
\* insert form gives a selectable list, and a nested object under a field
\* the insert form gives the composite sub-inputs
C24_EditLikeInsert ==
    [][/\ (last_op' = "edit_clicked" /\ dialog'.kind = "edit") =>
            \A i \in 1..Len(edit_fields(dialog'.doc)) :
                BuiltKind(dialog'.widgets, edit_fields(dialog'.doc)[i])
                    = InsertKind(dialog'.coll, edit_fields(dialog'.doc)[i])
       /\ (last_op' = "on_save" /\ calls' # <<>>) =>
            \A i \in 1..Len(calls'[1].arg) :
                LET e == calls'[1].arg[i]
                IN  /\ InsertKind(dialog.coll, e.k) = "reference"
                          => e.v.t \in {"oid", "null"}
                    /\ InsertKind(dialog.coll, e.k) = "composite"
                          => e.v.t = "dict"]_vars
----------------------------------------------------------------------------
(* Seeding                                                                 *)

MaxSeeded == 9

SeedCollections == {"membershipLevels", "facilities", "members"}

\* MainWindow.__init__ on a fresh database
SeedInit ==
    /\ CoerceIdle
    /\ AdminInit
    /\ window = "proto"
    /\ member = <<>>
    /\ clock = 0
    /\ store = EmptyStore
    /\ next_id = 1
    /\ worker = [pc |-> "started", task |-> Task("ensure", "None", VNull, <<>>),
                 action |-> "none", op |-> NoTask]
    /\ foreground = "idle"
    /\ pending = <<>>

\* the user waits for the worker before the next click
Settled == worker.pc = "idle" /\ pending = <<>>

\* seeding, browsing and deleting in the prototype window
SeedNext ==
    \/ Settled /\ next_id < MaxSeeded /\ ProtoSeed
    \/ \E c \in {"membershipLevels", "members"} : Settled /\ ProtoSelect(c)
    \/ \E r \in 1..MaxDocs : Settled /\ ProtoSelectRow(r)
    \/ \E confirmed \in BOOLEAN : Settled /\ ProtoDelete(confirmed)
    \/ WorkerRun
    \/ WorkerCall
    \/ \E ok \in BOOLEAN : WorkerDone(ok)
    \/ Deliver

SpecSeed == SeedInit /\ [][SeedNext]_vars

\* the step is the return of a seeding the store served
SeedReturned ==
    /\ last_op' = "run"
    /\ calls' # <<>>
    /\ calls'[1].op = "ensure"
    /\ calls'[1].ok

\* C25: a seeding that the store serves adds no document to a collection
\* that holds one, leaves membershipLevels, facilities and members as a
\* second seeding would leave them, and reports a result, not an error,
\* whatever the store held
C25_SeedOnlyEmpty ==
    [][SeedReturned =>
          /\ \A c \in SeedCollections : store[c] # <<>> => store'[c] = store[c]
          /\ \A c \in SeedCollections :
                seed_sample_data(store', next_id').store[c] = store'[c]
          /\ pending'[Len(pending')].kind = "result"]_vars
----------------------------------------------------------------------------
(* Writes and the view of the admin browser                                *)

\* the step is a write the admin browser sent to the store
WriteIssued ==
    /\ last_op' \in {"on_ok", "on_save", "delete_clicked"}
    /\ calls' # <<>>
    /\ calls'[1].op \in {"insert_doc", "update_doc", "delete_doc"}

\* the cache, the rows and the count show the store's content of the current
\* collection after the step
ViewReplaced ==
    /\ docs_cache' = Take(store'[current_collection], MAX_ROWS)
    /\ table_rows' = docs_cache'
    /\ count_label'.n = Len(docs_cache')

\* as stated: every successful write is followed, within its handler, by a
\* load that replaces the cache, the rows and the count by the store's
\* content; a failed write issues no load and leaves the cache
C26_WriteReloads ==
    [][WriteIssued =>
          IF calls'[1].ok
          THEN /\ Len(calls') = 2
               /\ calls'[2] = FindCall(current_collection, calls'[2].ok)
               /\ ViewReplaced
          ELSE Len(calls') = 1 /\ UNCHANGED docs_cache]_vars

\* C26: every successful insert, edit-save or delete of the admin browser
\* issues, within its handler, one find_docs on the current collection; when
\* that load succeeds the cache, the rows and the count are replaced by the
\* store's content after the write (at most MAX_ROWS documents), and when it
\* raises, DB Error is shown and the cache and the rows stay; a failed write
\* issues no load and leaves the cache and the rows
C26_WriteReloadsIfLoadable ==
    [][WriteIssued =>
          IF calls'[1].ok
          THEN /\ Len(calls') = 2
               /\ calls'[2] = FindCall(current_collection, calls'[2].ok)
               /\ IF calls'[2].ok THEN ViewReplaced
                  ELSE /\ UNCHANGED <<docs_cache, table_rows>>
                       /\ msgs'[Len(msgs')] = Box("critical", "DB Error")
          ELSE Len(calls') = 1 /\ UNCHANGED <<docs_cache, table_rows>>]_vars

\* a delete went through, and the cache shows the one member left
C26_Witness ==
    /\ last_op = "delete_clicked"
    /\ Len(calls) = 2
    /\ calls[1].ok /\ calls[2].ok
    /\ current_collection = "members"
    /\ store["members"] = <<Member2>>
    /\ docs_cache = <<Member2>>
    /\ count_label.n = 1

\* the identifiers of the documents of a sequence
IdsOf(docs) == {DocGet(docs[i], K_id, VNull) : i \in 1..Len(docs)}

\* the collections that hold, or held when the browser opened, a document
\* with the identifier
Home(ident) ==
    {c \in CollectionNames : ident \in IdsOf(AdminStore[c]) \cup IdsOf(store[c])}

\* C27: in every reachable state of the admin browser every cached document
\* and every displayed row is a document of the collection current_collection
\* names, so that the insert form infers its fields from, and an edit or a
\* delete is sent to, the collection the documents on display came from
C27_CacheOfCurrentCollection ==
    \A ident \in IdsOf(docs_cache) \cup IdsOf(table_rows) :
        current_collection \in Home(ident)

\* C28: saving an edit form right after it opened, with no input changed,
\* leaves the store as it was: every field of the stored document keeps its
\* value and its type
C28_UneditedSaveIsNoOp ==
    [][(/\ last_op = "edit_clicked"
        /\ dialog.kind = "edit"
        /\ last_op' = "on_save"
        /\ calls' # <<>>
        /\ calls'[1].ok) => store' = store]_vars
----------------------------------------------------------------------------
(* The worker handoff of the prototype window                              *)

\* the step takes the worker from the choice of its branch to the store call
\* or to the KeyError
WorkerReads == worker.pc = "chosen" /\ last_op' = "run" /\ worker'.pc # "chosen"

\* C29: the worker performs the task it was started for as it was submitted:
\* when its branch reads arguments, the operation it sends to the store has
\* the action, the collection, the identifier and the payload of one and the
\* same task, for every interleaving of run_db_task with a run in progress
C29_TaskRunAsSubmitted ==
    [][(WorkerReads /\ task_keys(worker.action) # {"action"}) =>
          /\ worker'.pc = "op"
          /\ worker'.op = worker.task
          /\ worker.task.action = worker.action]_vars
----------------------------------------------------------------------------
(* Checking in and out                                                     *)

MaxCheckWrites == 5

MaxTicks == 1

Session(n, mid, fid, t, status) ==
    <<Entry(K_id, VOid(n)), Entry(K_memberId, VOid(mid)), Entry(K_facilityId, VOid(fid)),
      Entry(K_checkIn, VDate(t)), Entry(K_sessionStatus, VStr(status))>>

\* Alice has a booking at each of two facilities, a completed session at the
\* first and an open one at the second; Bob has an open session at the first
CheckStore ==
    [MemberStore EXCEPT
        !["bookings"] = <<Booking(32, 12, VOid(21)), Booking(31, 11, VOid(21)),
                          Booking(33, 11, VOid(22))>>,
        !["usageLogs"] = <<Session(45, 12, 21, 0, T_in_progress),
                           Session(46, 11, 21, 0, T_completed),
                           Session(47, 11, 22, 0, T_in_progress)>>]

CheckInit ==
    /\ LoginInit
    /\ store = CheckStore
    /\ next_id = 51

\* the store has assigned fewer than MaxCheckWrites identifiers
MayCheck == next_id < 51 + MaxCheckWrites

CheckNext ==
    \/ Login(<<"A">>, <<"p">>, TRUE, "ok", FALSE)
    \/ \E r \in 1..MaxDocs : ClientSelectRow(r)
    \/ \E confirmed, ok \in BOOLEAN : MayCheck /\ CheckIn(confirmed, ok, TRUE)
    \/ \E findOk, confirmed, ok \in BOOLEAN :
          MayCheck /\ CheckOut(findOk, confirmed, ok, TRUE)
    \/ clock < MaxTicks /\ Tick(1)

SpecCheck == CheckInit /\ [][CheckNext]_vars

\* the positions of the in-progress logs of a member at a facility
InProgress(st, mid, fid) ==
    {i \in 1..Len(st["usageLogs"]) :
        /\ DocGet(st["usageLogs"][i], K_memberId, VNull) = mid
        /\ DocGet(st["usageLogs"][i], K_facilityId, VNull) = fid
        /\ DocGet(st["usageLogs"][i], K_sessionStatus, VNull) = VStr(T_in_progress)}

\* the positions at which the usage logs differ before and after the step
ChangedLogs ==
    {i \in 1..Len(store["usageLogs"]) :
        i > Len(store'["usageLogs"]) \/ store'["usageLogs"][i] # store["usageLogs"][i]}

\* the facility of the selected booking
SelectedFacility == DocGet(table_rows[selected], K_facilityId, VNull)

\* the step is a confirmed check-in the store accepted
CheckedIn ==
    /\ last_op' = "on_check_in_clicked"
    /\ calls' # <<>>
    /\ calls'[1].ok

\* the step is a check-out that found an open session, was confirmed, and
\* whose update the store accepted
CheckedOut ==
    /\ last_op' = "on_check_out_clicked"
    /\ Len(calls') >= 2
    /\ calls'[2].ok

\* C30: a check-out without an in-progress log of the member at the selected
\* booking's facility writes nothing; the usage logs change only in a
\* confirmed check-in or check-out the store accepted; the check-in appends
\* one in-progress log of the logged-in member at that facility; the
\* check-out changes exactly one log, an in-progress log of that member and
\* facility with the latest checkIn, to completed with checkOut set, and no
\* completed log; and every step changes the number of in-progress logs of
\* every member and facility by +1 for its check-in, -1 for its check-out
\* and 0 otherwise
C30_SessionProtocol ==
    [][/\ (/\ last_op' = "on_check_out_clicked"
           /\ selected # 0
           /\ InProgress(store, member_id, SelectedFacility) = {}) => store' = store
       /\ IF store'["usageLogs"] = store["usageLogs"]
          THEN ~CheckedIn /\ ~CheckedOut
          ELSE /\ CheckedIn =>
                    /\ ChangedLogs = {}
                    /\ Len(store'["usageLogs"]) = Len(store["usageLogs"]) + 1
                    /\ \E log \in {store'["usageLogs"][Len(store'["usageLogs"])]} :
                          /\ DocGet(log, K_memberId, VNull) = member_id
                          /\ DocGet(log, K_facilityId, VNull) = SelectedFacility
                          /\ DocGet(log, K_sessionStatus, VNull) = VStr(T_in_progress)
                          /\ DocGet(log, K_checkIn, VNull) = VDate(clock)
               /\ CheckedOut =>
                    /\ Len(store'["usageLogs"]) = Len(store["usageLogs"])
                    /\ \E i \in InProgress(store, member_id, SelectedFacility) :
                          /\ ChangedLogs = {i}
                          /\ \A j \in InProgress(store, member_id, SelectedFacility) :
                                DocGet(store["usageLogs"][j], K_checkIn, VNull).n
                                    <= DocGet(store["usageLogs"][i], K_checkIn, VNull).n
                          /\ DocGet(store'["usageLogs"][i], K_sessionStatus, VNull)
                                = VStr(T_completed)
                          /\ DocGet(store'["usageLogs"][i], K_checkOut, VNull)
                                = VDate(clock)
               /\ \A mid \in {VOid(11), VOid(12)}, fid \in {VOid(21), VOid(22)} :
                     Cardinality(InProgress(store', mid, fid))
                        = Cardinality(InProgress(store, mid, fid))
                          + (IF CheckedIn /\ mid = member_id /\ fid = SelectedFacility
                             THEN 1 ELSE 0)
                          - (IF CheckedOut /\ mid = member_id /\ fid = SelectedFacility
                             THEN 1 ELSE 0)]_vars

\* Alice checked in twice at the first facility and out once: the later of
\* her two sessions is completed, the earlier one is still open, and the
\* session completed before and Bob's open session are as they were
C30_Witness ==
    /\ last_op = "on_check_out_clicked"
    /\ Len(store["usageLogs"]) = 5
    /\ store["usageLogs"][1] = Session(45, 12, 21, 0, T_in_progress)
    /\ store["usageLogs"][2] = Session(46, 11, 21, 0, T_completed)
    /\ DocGet(store["usageLogs"][4], K_checkIn, VNull) = VDate(0)
    /\ DocGet(store["usageLogs"][4], K_sessionStatus, VNull) = VStr(T_in_progress)
    /\ DocGet(store["usageLogs"][5], K_checkIn, VNull) = VDate(1)
    /\ DocGet(store["usageLogs"][5], K_sessionStatus, VNull) = VStr(T_completed)
    /\ DocGet(store["usageLogs"][5], K_checkOut, VNull) = VDate(1)

====
